---------------------------- MODULE Spec2Model ----------------------------
(***************************************************************************)
(* Model of the per-camera incident pipeline of 5301TrafficAI:             *)
(*   events/Accident_detect/incident_aggregator.py  (AccidentAggregator)   *)
(*   events/camera_pipeline.py                      (SingleFileSession)    *)
(*   api/session_manager.py                         (SessionManager)       *)
(*   events/bus.py                                  (AsyncBus)             *)
(*   events/Accident_detect/accident_detector.py    (batch scheduler)      *)
(*   events/frame_discrete.py                       (source, sampler)      *)
(*                                                                         *)
(* Units.  Video time (pts_in_video, *_SEC constants) is counted in        *)
(* milliseconds.  Confidences and the EMA are fixed-point numbers counted  *)
(* in 1/ConfScale; the EMA recurrence is evaluated with the code's         *)
(* coefficients and truncated to that resolution.                          *)
(* The sampler alone counts its pts in ticks of 1e-4 s (jitter_epsilon).   *)
(***************************************************************************)
EXTENDS Integers, Sequences, FiniteSets, TLC

\* ------------------------------------------------------------------ bounds
MaxDet == 15            \* detections delivered to one aggregator
MaxGap == 1             \* detections that arrive after more than one frame step
MaxFlip == 2            \* changes of confidence between consecutive detections
MaxStart == 2           \* sessions started for the camera (SpecRestart)
MaxDetRestart == 3      \* detections per session in SpecRestart
MaxPub == 3             \* bus.publish calls of the bus clients (SpecBus)
MaxPubMany == 4         \* bus.publish calls of the bus clients (SpecMany)
MaxSub == 2             \* subscribe calls (SpecBus, SpecFanout)
MaxDetFan == 4          \* detections per session in SpecFanout
BufMaxlen == 2          \* frames a scheduler buffer holds: stands for deque(maxlen=128)
MaxFrameIdx == 1        \* frame_idx of the frames fed to the scheduler: 0..MaxFrameIdx
MaxRaw == 5             \* raw frames delivered to one sampler
MaxDetFail == 4         \* detections per session in SpecFail
MaxSess == 3            \* SingleFileSession objects created by start_all
MaxReg == 3             \* calls of SessionManager.register
MaxSrcFrames == 2       \* frames one frame source decodes
MaxReadFail == 1        \* failed reads of one frame source
RawQueueCap == 2        \* queue of a sampler's subscription: stands for maxsize=64
MaxFeed == 4            \* frames published on the frames:<cam> topics
ColQueueCap == 1        \* queue of a collector's subscription: stands for maxsize=64
MaxDetFlags == 9        \* detections per session in SpecFlags
MaxBgCalls == 2         \* calls of ensure_bg_loop and stop_bg_loop by one thread
MaxWork == 2            \* coroutines handed to one background loop
MaxPubScope == 2        \* bus.publish calls of the bus clients (SpecScope)
AggQueueCap == 1        \* queue of an aggregator's subscription: stands for maxsize=128

\* ------------------------------------------------------- program constants
ALPHA_NUM == 25                     \* _ALPHA = 0.25 = ALPHA_NUM / ALPHA_DEN
ALPHA_DEN == 100
EXIT_THR == 4000                    \* _EXIT_THR = 0.40
REQUIRED_HAPPENED_CONSEC == 3       \* _REQUIRED_HAPPENED_CONSEC
MIN_END_NEG_FRAMES == 8             \* _MIN_END_NEG_FRAMES
OCCLUSION_GRACE_SEC == 1000         \* _OCCLUSION_GRACE_SEC = 1.0
MERGE_GAP_SEC == 5000               \* _MERGE_GAP_SEC = 5.0
DECISION_THRESH == 7000             \* _DECISION_THRESH = 0.7

TOPIC_OPEN_BASE == "accidents.open"
TOPIC_CLOSE_BASE == "accidents.close"
GLOBAL_SSE_ID == "sse-main"
CameraId == "cam-1"

\* ------------------------------------------------------------ input alphabet
FirstPts == {0, 1000}                       \* pts of the first detection of a session
DtFrame == 33                               \* one frame step at 30 fps
GapSet == {1000, 1001, 5000, 5001}          \* longer steps between detections
ConfSet == {1000, 9000}                     \* detector confidences

\* Optional values: None is the empty sequence, Some(x) a one-element one.
None == <<>>
Some(x) == <<x>>
IsNone(o) == o = <<>>
Val(o) == o[1]

Max(a, b) == IF a >= b THEN a ELSE b

\* dict[k] = v on a dict modelled as a function from key strings
DictSet(d, k, v) == [x \in (DOMAIN d) \cup {k} |-> IF x = k THEN v ELSE d[x]]
\* dict.get(k, default)
DictGet(d, k, default) == IF k \in DOMAIN d THEN d[k] ELSE default

\* events.bus.topic_for: f"{base}:{camera_id}" if camera_id else base.  A topic
\* is the tuple of its ":"-separated parts; NoCamera is camera_id=None.
NoCamera == ""
topic_for(base, camera_id) == IF camera_id = NoCamera THEN <<base>> ELSE <<base, camera_id>>

VARIABLES
    \* AccidentAggregator fields
    counter, ema, hap_streak, neg_streak, open, last_seen_pts,
    pending_close, pending_close_time,
    \* SingleFileSession: _running, the three tasks, the supervisor _start
    running, t_src, t_smp, t_agg, sup,
    \* every bus.publish of the aggregator and of the bus clients, in order
    published,
    \* AsyncBus._topics (topic -> list of subscribers), every _Subscriber made
    \* so far, and the merged queue of the subscribe_many handle
    topics, subs, merged,
    \* AsyncBus._lock.locked() where every task is suspended, and the
    \* subscribers whose subscribe or subscribe_many scope has exited
    lock, exited,
    \* run_accident_detector_multi: its arguments, bufs, the position of its
    \* loop, batch_items, its collector tasks, and the detections it published
    \* for the last batch
    camera_ids, batch_size, bufs, sched, batch_items, collectors, dets_out,
    \* run_sampler_equal_time: target_fps (0 before the call), next_t, the raw
    \* frames it received and the frames it published, in order
    target_fps, next_t, raw, emitted,
    \* api.runtime_state: INTENDED (its keys), SESSIONS (camera -> session
    \* object), DETECTOR_TASK (None or the camera list of its _run_multi);
    \* every SingleFileSession made so far; the request threads inside
    \* start_all; the coroutines handed to the loop and not yet run; the
    \* number of register calls
    INTENDED, SESSIONS, DETECTOR_TASK, sess, req, loopq, nreg,
    \* run_frame_source_raw of each camera (its state, whether its source is a
    \* file, its frame_idx, the reads that failed) and the subscriber of each
    \* camera's sampler (0 before it subscribes)
    source, smp_sub,
    \* the frames published on frames:<cam> so far (their number, the last
    \* frame_idx), the subscriber of each collector and of each aggregator
    \* (None before it subscribes)
    fed, col_sub, agg_sub,
    \* api.runtime_state: _BG_LOOP (None or the number of a loop), every event
    \* loop made so far (its state, a stop handed to it, the work handed to it
    \* and the work it has run), the holder of _BG_LOCK (0: free), and the
    \* request threads (where they are, the loop ensure_bg_loop returned to
    \* them, the calls they have made)
    BG_LOOP, bg_loops, BG_LOCK, bgthr,
    \* input stream: the detections handed to _process so far, the last of
    \* them, and counters
    hist, det, ndet, ngap, nflip, nstart,
    \* observation of the input: the current run of happened=true detections
    run_len, run_first

aggvars == <<counter, ema, hap_streak, neg_streak, open,
             last_seen_pts, pending_close, pending_close_time>>
sessvars == <<running, t_src, t_smp, t_agg, sup>>
obsvars == <<hist, det, ndet, ngap, nflip, run_len, run_first>>
busvars == <<topics, subs, merged, lock, exited>>
detvars == <<camera_ids, batch_size, bufs, sched, batch_items, collectors, dets_out>>
smpvars == <<target_fps, next_t, raw, emitted>>
\* the state of the stages modelled on their own
mgrvars == <<INTENDED, SESSIONS, DETECTOR_TASK, sess, req, loopq, nreg>>
srcvars == <<source, smp_sub>>
ordvars == <<fed, col_sub, agg_sub>>
bgvars == <<BG_LOOP, bg_loops, BG_LOCK, bgthr>>
addvars == <<srcvars, ordvars, bgvars>>
extvars == <<smpvars, mgrvars, addvars>>
pipevars == <<aggvars, sessvars, obsvars, nstart, detvars, extvars>>
vars == <<aggvars, sessvars, published, obsvars, nstart, busvars, detvars, extvars>>

\* AccidentAggregator.session_id as passed by SessionManager.start_all
session_id == GLOBAL_SSE_ID

\* ---------------------------------------------------------------- aggregator
\* _new_id: f"{session_id}-{camera_id}-{counter:06d}" for the incremented counter
new_id(cnt) == <<session_id, CameraId, cnt + 1>>

\* _Incident(...) as built on a normal open
NewIncident(id, ts, fidx, conf) ==
    [id |-> id, camera_id |-> CameraId, start_ts |-> ts, end_ts |-> ts,
     start_idx |-> fidx, end_idx |-> fidx, peak_conf |-> conf, pos_frames |-> 1]

\* the dict built by _emit_open
OpenEvent(inc) ==
    [type |-> "accident_open", camera_id |-> CameraId,
     frame_idx |-> inc.start_idx, pts_in_video |-> inc.start_ts,
     confidence |-> inc.peak_conf, session_id |-> session_id,
     incident_id |-> inc.id, peak_confidence |-> inc.peak_conf]

\* the dict built by _schedule_close
CloseEvent(inc) ==
    [type |-> "accident_close", camera_id |-> CameraId,
     frame_idx |-> inc.end_idx, pts_in_video |-> inc.end_ts,
     confidence |-> inc.peak_conf, session_id |-> session_id,
     incident_id |-> inc.id,
     duration_sec |-> Max(0, inc.end_ts - inc.start_ts),
     peak_confidence |-> inc.peak_conf]

\* the dict built by flush for a still-open incident
FlushEvent(inc) ==
    [type |-> "accident_close", session_id |-> session_id,
     incident_id |-> inc.id, camera_id |-> CameraId,
     start_ts |-> inc.start_ts, end_ts |-> inc.end_ts,
     duration_sec |-> Max(0, inc.end_ts - inc.start_ts),
     peak_confidence |-> inc.peak_conf, pos_frames |-> inc.pos_frames,
     reason |-> "flush_open"]

\* mutant: a detection never flushes the pending close
PendingExpired_Never(pc, pct, now_pts) == FALSE

\* mutant: the merge window is closed one instant early
PendingExpired_Early(pc, pct, now_pts) ==
    /\ ~IsNone(pc)
    /\ ~IsNone(pct)
    /\ now_pts - Val(pct) >= MERGE_GAP_SEC

\* _flush_pending_close_if_expired: the condition under which it publishes
PendingExpired(pc, pct, now_pts) ==
    /\ ~IsNone(pc)
    /\ ~IsNone(pct)
    /\ now_pts - Val(pct) > MERGE_GAP_SEC

\* mutant: no gap is an occlusion
OcclusionOk_Always(prev_pts, ts) == TRUE

\* occlusion_ok of _process
OcclusionOk(prev_pts, ts) ==
    ~(~IsNone(prev_pts) /\ ts - Val(prev_pts) > OCCLUSION_GRACE_SEC)

\* mutant: the two weights of the EMA are exchanged
EmaUpdate_Swapped(e, conf) == ((ALPHA_DEN - ALPHA_NUM) * conf + ALPHA_NUM * e) \div ALPHA_DEN

\* self.ema = _ALPHA * conf + (1.0 - _ALPHA) * self.ema
EmaUpdate(e, conf) == (ALPHA_NUM * conf + (ALPHA_DEN - ALPHA_NUM) * e) \div ALPHA_DEN

\* _hap_streak update
HapStreakUpdate(h, happened) == IF happened THEN h + 1 ELSE 0

\* _neg_streak update
NegStreakUpdate(n, e, occlusion_ok) == IF e <= EXIT_THR /\ occlusion_ok THEN n + 1 ELSE 0

\* mutant: the open gate does not look at the incident that is OPEN
OpenCondition_NoGuard(o, h) == h >= REQUIRED_HAPPENED_CONSEC

\* mutant: the open gate is one frame short
OpenCondition_Short(o, h) == IsNone(o) /\ h >= REQUIRED_HAPPENED_CONSEC - 1

\* open decision of _process
OpenCondition(o, h) == IsNone(o) /\ h >= REQUIRED_HAPPENED_CONSEC

\* merge-window test of _process
WithinMergeWindow(pc, pct, ts) ==
    /\ ~IsNone(pc)
    /\ ~IsNone(pct)
    /\ ts - Val(pct) <= MERGE_GAP_SEC

\* mutant: the close decision does not wait for the negative streak
CloseCondition_Eager(e, n) == e <= EXIT_THR

\* close decision of _process
CloseCondition(e, n) == e <= EXIT_THR /\ n >= MIN_END_NEG_FRAMES

\* ongoing-event update of _process
UpdateIncident(inc, ts, fidx, conf, happened) ==
    [inc EXCEPT !.end_ts = ts, !.end_idx = fidx,
                !.peak_conf = Max(inc.peak_conf, conf),
                !.pos_frames = IF happened THEN inc.pos_frames + 1 ELSE inc.pos_frames]

\* _merge_reopen_into_pending, statement by statement.  A read of a key the
\* dict does not hold raises KeyError: raised is TRUE and pc is the dict as
\* left by the statements executed before it.
MergeReopenIntoPending(pc0, new_end_ts, new_peak, new_pos_frames) ==
    LET pc1 == DictSet(pc0, "end_ts", new_end_ts)
    IN  IF "start_ts" \notin DOMAIN pc1
        THEN [raised |-> TRUE, pc |-> pc1]
        ELSE LET pc2 == DictSet(pc1, "duration_sec", Max(0, pc1["end_ts"] - pc1["start_ts"]))
                 pc3 == DictSet(pc2, "peak_confidence", Max(pc2["peak_confidence"], new_peak))
                 pc4 == DictSet(pc3, "pos_frames", DictGet(pc3, "pos_frames", 0) + new_pos_frames)
             IN  [raised |-> FALSE, pc |-> pc4]

\* _Incident(...) restored from the merged pending close
ReopenedIncident(pc, ts, fidx) ==
    [id |-> pc["incident_id"], camera_id |-> CameraId,
     start_ts |-> pc["start_ts"], end_ts |-> ts,
     start_idx |-> fidx, end_idx |-> fidx,
     peak_conf |-> pc["peak_confidence"], pos_frames |-> DictGet(pc, "pos_frames", 0)]

Publish(log, base, ev) == Append(log, [topic |-> topic_for(base, CameraId), ev |-> ev, by |-> nstart])

\* AccidentAggregator._process(d).  raised' of the run loop is t_agg' = "failed".
Process(d) ==
    LET ts == d.pts_in_video
        conf == d.confidence
        happened == d.happened
        fidx == d.frame_idx
        expired == PendingExpired(pending_close, pending_close_time, ts)
        pc1 == IF expired THEN None ELSE pending_close
        pct1 == IF expired THEN None ELSE pending_close_time
        pub1 == IF expired THEN Publish(published, TOPIC_CLOSE_BASE, Val(pending_close))
                ELSE published
        occlusion_ok == OcclusionOk(last_seen_pts, ts)
        ema1 == EmaUpdate(ema, conf)
        hap1 == HapStreakUpdate(hap_streak, happened)
        neg1 == NegStreakUpdate(neg_streak, ema1, occlusion_ok)
    IN
    /\ last_seen_pts' = Some(ts)
    /\ IF OpenCondition(open, hap1)
       THEN IF WithinMergeWindow(pc1, pct1, ts)
            THEN LET m == MergeReopenIntoPending(Val(pc1), ts, conf, 1)
                 IN  IF m.raised
                     THEN /\ pending_close' = Some(m.pc)
                          /\ pending_close_time' = pct1
                          /\ open' = open
                          /\ hap_streak' = hap1
                          /\ t_agg' = "failed"
                          /\ ema' = ema1 /\ neg_streak' = neg1
                          /\ counter' = counter /\ published' = pub1
                     ELSE /\ open' = Some(ReopenedIncident(m.pc, ts, fidx))
                          /\ pending_close' = None
                          /\ pending_close_time' = None
                          /\ hap_streak' = 0
                          /\ t_agg' = t_agg
                          /\ ema' = ema1 /\ neg_streak' = neg1
                          /\ counter' = counter /\ published' = pub1
            ELSE LET inc == NewIncident(new_id(counter), ts, fidx, conf)
                 IN  /\ counter' = counter + 1
                     /\ open' = Some(inc)
                     /\ hap_streak' = 0
                     /\ published' = Publish(pub1, TOPIC_OPEN_BASE, OpenEvent(inc))
                     /\ pending_close' = pc1 /\ pending_close_time' = pct1
                     /\ ema' = ema1 /\ neg_streak' = neg1 /\ t_agg' = t_agg
       ELSE IF ~IsNone(open)
            THEN LET inc == UpdateIncident(Val(open), ts, fidx, conf, happened)
                 IN  IF CloseCondition(ema1, neg1)
                     THEN /\ pending_close' = Some(CloseEvent(inc))
                          /\ pending_close_time' = Some(inc.end_ts)
                          /\ open' = None
                          /\ ema' = 0
                          /\ neg_streak' = 0
                          /\ hap_streak' = hap1 /\ counter' = counter
                          /\ published' = pub1 /\ t_agg' = t_agg
                     ELSE /\ open' = Some(inc)
                          /\ pending_close' = pc1 /\ pending_close_time' = pct1
                          /\ ema' = ema1 /\ neg_streak' = neg1
                          /\ hap_streak' = hap1 /\ counter' = counter
                          /\ published' = pub1 /\ t_agg' = t_agg
            ELSE /\ open' = open
                 /\ pending_close' = pc1 /\ pending_close_time' = pct1
                 /\ ema' = ema1 /\ neg_streak' = neg1
                 /\ hap_streak' = hap1 /\ counter' = counter
                 /\ published' = pub1 /\ t_agg' = t_agg

\* mutant: flush forgets the incident that is still open
FlushEvents_PendingOnly(o, pc) ==
    IF ~IsNone(pc) THEN <<Val(pc)>> ELSE <<>>

\* AccidentAggregator.flush: the events it publishes, in order
FlushEvents(o, pc) ==
    (IF ~IsNone(pc) THEN <<Val(pc)>> ELSE <<>>) \o
    (IF ~IsNone(o) THEN <<FlushEvent(Val(o))>> ELSE <<>>)

RECURSIVE PublishAll(_, _, _)
PublishAll(log, base, evs) ==
    IF evs = <<>> THEN log
    ELSE PublishAll(Publish(log, base, Head(evs)), base, Tail(evs))

\* AccidentAggregator.flush
Flush ==
    /\ published' = PublishAll(published, TOPIC_CLOSE_BASE, FlushEvents(open, pending_close))
    /\ pending_close' = None
    /\ pending_close_time' = None
    /\ open' = None
    /\ UNCHANGED <<counter, ema, hap_streak, neg_streak, last_seen_pts>>

\* ---------------------------------------------------------------------- bus
\* An item in a queue is the number n of the bus.publish call that put it
\* there; its topic and payload are published[n].

\* _Subscriber.__init__: the mode kept
SubMode(mode) == IF mode = "latest" THEN "latest" ELSE "fifo"

\* mutant: a latest subscriber keeps the capacity it was asked for
SubCap_Requested(mode, maxsize) == Max(1, maxsize)

\* _Subscriber.__init__: the capacity of the queue
SubCap(mode, maxsize) == IF SubMode(mode) = "latest" THEN 1 ELSE Max(1, maxsize)

\* mutant: a new subscriber is handed the last item published on its topic
NewSubscriber_Replay(topic, mode, maxsize, many) ==
    [topic |-> topic, mode |-> SubMode(mode), cap |-> SubCap(mode, maxsize),
     queue |-> IF \E n \in DOMAIN published : published[n].topic = topic
               THEN <<CHOOSE n \in DOMAIN published :
                        /\ published[n].topic = topic
                        /\ \A k \in DOMAIN published : published[k].topic = topic => k <= n>>
               ELSE <<>>,
     many |-> many, held |-> None,
     asked |-> maxsize, since |-> Len(published), got |-> <<>>, lost |-> <<>>]

\* _Subscriber(mode, maxsize) as registered for topic.  many: it belongs to a
\* subscribe_many handle, held: the item its forward task has taken and not
\* yet put.  asked, since, got and lost record the maxsize argument, the
\* number of publishes before the registration, the items the consumer has
\* read and the items evicted.
NewSubscriber(topic, mode, maxsize, many) ==
    [topic |-> topic, mode |-> SubMode(mode), cap |-> SubCap(mode, maxsize),
     queue |-> <<>>, many |-> many, held |-> None,
     asked |-> maxsize, since |-> Len(published), got |-> <<>>, lost |-> <<>>]

\* mutant: a full fifo queue refuses the new item instead of evicting
Deliver_DropNewest(s, item) ==
    IF Len(s.queue) >= s.cap
    THEN [s EXCEPT !.lost = Append(@, item)]
    ELSE [s EXCEPT !.queue = Append(@, item)]

\* mutant: the new item is put at the head of the queue
Deliver_Front(s, item) ==
    IF Len(s.queue) >= s.cap
    THEN [s EXCEPT !.queue = <<item>> \o Tail(@), !.lost = Append(@, Head(s.queue))]
    ELSE [s EXCEPT !.queue = <<item>> \o @]

\* _Subscriber.deliver
Deliver(s, item) ==
    LET full == Len(s.queue) >= s.cap
        q1 == IF full THEN Tail(s.queue) ELSE s.queue
        dropped == IF full THEN <<Head(s.queue)>> ELSE <<>>
    IN  IF s.mode = "latest"
        THEN IF Len(q1) < s.cap
             THEN [s EXCEPT !.queue = Append(q1, item), !.lost = @ \o dropped]
             ELSE [s EXCEPT !.queue = <<item>>, !.lost = @ \o dropped \o q1]
        ELSE IF ~full
             THEN [s EXCEPT !.queue = Append(@, item)]
             ELSE IF Len(q1) < s.cap
                  THEN [s EXCEPT !.queue = Append(q1, item), !.lost = @ \o dropped]
                  ELSE [s EXCEPT !.queue = q1, !.lost = @ \o dropped \o <<item>>]

\* the elements of a list
Range(seq) == {seq[i] : i \in DOMAIN seq}

\* mutant: pop leaves the key in the dict
DictPop_Keep(d, k) == d

\* list.remove(x) / dict.pop(k, None)
ListRemove(seq, x) == SelectSeq(seq, LAMBDA y : y # x)
DictPop(d, k) == [x \in (DOMAIN d) \ {k} |-> d[x]]

\* mutant: subscribe_many waits inside its locked section
LockSection_Awaiting(op) ==
    IF op = "subscribe_many" THEN <<"_Subscriber", "setdefault", "append", "await">>
    ELSE <<"get">>

\* what each operation of the bus does inside "async with self._lock", in
\* order; "await" stands for a suspension point
LockSection(op) ==
    CASE op = "subscribe" -> <<"setdefault", "append", "print">>
      [] op = "unsubscribe" -> <<"get", "remove", "pop">>
      [] op = "subscribe_many" -> <<"_Subscriber", "setdefault", "append", "append",
                                    "print", "create_task">>
      [] op = "unsubscribe_many" -> <<"get", "remove", "pop", "print">>
      [] op = "publish" -> <<"get", "list">>
      [] op = "close_topic" -> <<"pop">>

\* the lock when the operation reaches its next suspension point: it is
\* released at the end of the section unless the section suspends
HeldAfter(op) == "await" \in Range(LockSection(op))

\* mutant: publish delivers to the subscribers of every topic
Snapshot_AllTopics(tp, topic) == UNION {Range(tp[t]) : t \in DOMAIN tp}

\* AsyncBus.publish: subs = list(self._topics.get(topic, []))
Snapshot(tp, topic) == IF topic \in DOMAIN tp THEN Range(tp[topic]) ELSE {}

\* AsyncBus.publish: the loop over the snapshot
Fanout(ss, tp, topic, item) ==
    [i \in DOMAIN ss |-> IF i \in Snapshot(tp, topic) THEN Deliver(ss[i], item) ELSE ss[i]]

\* the publish calls number from..Len(log), one after the other
RECURSIVE FanoutFrom(_, _, _, _)
FanoutFrom(ss, tp, log, from) ==
    IF from > Len(log) THEN ss
    ELSE FanoutFrom(Fanout(ss, tp, log[from].topic, from), tp, log, from + 1)

\* the bus side of the publish calls of an aggregator step
BusDelivers ==
    /\ subs' = FanoutFrom(subs, topics, published', Len(published) + 1)
    /\ UNCHANGED <<topics, merged, lock, exited>>

\* mutant: publish registers the topic it is given
PublishTopics_SetDefault(tp, topic) == DictSet(tp, topic, DictGet(tp, topic, <<>>))

\* AsyncBus.publish: the topic map after the call
PublishTopics(tp, topic) == tp

\* a bus client calls bus.publish(topic, item)
BusPublish(topic, item, maxPub) ==
    /\ Len(published) < maxPub
    /\ ~lock
    /\ published' = Append(published, [topic |-> topic, ev |-> item, by |-> nstart])
    /\ subs' = Fanout(subs, topics, topic, Len(published) + 1)
    /\ topics' = PublishTopics(topics, topic)
    /\ lock' = HeldAfter("publish")
    /\ UNCHANGED <<merged, exited, pipevars>>

\* the subscribers made by subscribe, not by subscribe_many
Singles == {i \in DOMAIN subs : ~subs[i].many}
\* the subscriber is in the topic map
Registered(i) == \E t \in DOMAIN topics : i \in Range(topics[t])

\* AsyncBus.subscribe up to the yield of the queue
Subscribe(topic, mode, maxsize) ==
    /\ Cardinality(Singles) < MaxSub
    /\ ~lock
    /\ subs' = Append(subs, NewSubscriber(topic, mode, maxsize, FALSE))
    /\ topics' = DictSet(topics, topic, Append(DictGet(topics, topic, <<>>), Len(subs) + 1))
    /\ lock' = HeldAfter("subscribe")
    /\ UNCHANGED <<merged, exited, published, pipevars>>

\* AsyncBus.subscribe after the yield: the scope of the handle exits, by
\* the end of its body, an exception or the cancellation of its task
Unsubscribe(i) ==
    /\ i \in Singles
    /\ i \notin exited
    /\ ~lock
    /\ LET t == subs[i].topic
           lst == ListRemove(DictGet(topics, t, <<>>), i)
       IN  topics' = IF t \notin DOMAIN topics THEN topics
                     ELSE IF lst = <<>> THEN DictPop(topics, t) ELSE DictSet(topics, t, lst)
    /\ exited' = exited \cup {i}
    /\ lock' = HeldAfter("unsubscribe")
    /\ UNCHANGED <<subs, merged, published, pipevars>>

\* asyncio.Queue(maxsize).full(): a maxsize <= 0 is no limit
QueueFull(q, maxsize) == maxsize > 0 /\ Len(q) >= maxsize

\* SessionManager.stream._pipe: the topics of its subscribe_many call
PipeTopics(cids) ==
    [i \in DOMAIN cids |-> topic_for(TOPIC_OPEN_BASE, cids[i])] \o
    [i \in DOMAIN cids |-> topic_for(TOPIC_CLOSE_BASE, cids[i])]

\* AsyncBus.subscribe_many up to the yield of the merged queue: one subscriber
\* and one forward task per topic
SubscribeMany(tlist, mode, maxsize) ==
    /\ IsNone(merged)
    /\ ~lock
    /\ subs' = subs \o [k \in DOMAIN tlist |-> NewSubscriber(tlist[k], mode, maxsize, TRUE)]
    /\ topics' = [t \in (DOMAIN topics) \cup Range(tlist) |->
                    DictGet(topics, t, <<>>) \o
                    SelectSeq([k \in DOMAIN tlist |-> Len(subs) + k],
                              LAMBDA i : tlist[i - Len(subs)] = t)]
    /\ merged' = Some([queue |-> <<>>, maxsize |-> maxsize, got |-> <<>>])
    /\ lock' = HeldAfter("subscribe_many")
    /\ UNCHANGED <<exited, published, pipevars>>

\* the subscribers of the subscribe_many handle, in the order of its topics
ManySubs == SelectSeq([k \in DOMAIN subs |-> k], LAMBDA k : subs[k].many)

\* the finally block of subscribe_many: for t, s in zip(topics, subs)
RECURSIVE RemoveMany(_, _)
RemoveMany(tp, is) ==
    IF is = <<>> THEN tp
    ELSE LET i == Head(is)
             t == subs[i].topic
             has == t \in DOMAIN tp
             tp1 == IF has /\ tp[t] # <<>> /\ i \in Range(tp[t])
                    THEN DictSet(tp, t, ListRemove(tp[t], i)) ELSE tp
             tp2 == IF has /\ tp1[t] = <<>> THEN DictPop(tp1, t) ELSE tp1
         IN  RemoveMany(tp2, Tail(is))

\* AsyncBus.subscribe_many after the yield: the scope of the handle exits;
\* its forward tasks are left running
UnsubscribeMany ==
    /\ ~IsNone(merged)
    /\ Range(ManySubs) \cap exited = {}
    /\ ~lock
    /\ topics' = RemoveMany(topics, ManySubs)
    /\ exited' = exited \cup Range(ManySubs)
    /\ lock' = HeldAfter("unsubscribe_many")
    /\ UNCHANGED <<subs, merged, published, pipevars>>

\* AsyncBus.close_topic
CloseTopic(topic) ==
    /\ ~lock
    /\ topics' = DictPop(topics, topic)
    /\ lock' = HeldAfter("close_topic")
    /\ UNCHANGED <<subs, merged, exited, published, pipevars>>

\* subscribe_many.forward: item = await sub.queue.get()
ForwardGet(i) ==
    /\ subs[i].many
    /\ IsNone(subs[i].held)
    /\ subs[i].queue # <<>>
    /\ subs' = [subs EXCEPT ![i].held = Some(Head(subs[i].queue)), ![i].queue = Tail(@)]
    /\ UNCHANGED <<topics, merged, lock, exited, published, pipevars>>

\* subscribe_many.forward: await merged_q.put(item), which waits while full
ForwardPut(i) ==
    /\ subs[i].many
    /\ ~IsNone(subs[i].held)
    /\ ~QueueFull(Val(merged).queue, Val(merged).maxsize)
    /\ merged' = Some([Val(merged) EXCEPT !.queue = Append(@, Val(subs[i].held))])
    /\ subs' = [subs EXCEPT ![i].held = None]
    /\ UNCHANGED <<topics, lock, exited, published, pipevars>>

\* the consumer of a subscribe handle: item = await q.get()
Get(i) ==
    /\ i \in Singles
    /\ subs[i].queue # <<>>
    /\ subs' = [subs EXCEPT ![i].got = Append(@, Head(subs[i].queue)), ![i].queue = Tail(@)]
    /\ UNCHANGED <<topics, merged, lock, exited, published, pipevars>>

\* the consumer of the subscribe_many handle: evt = await subq.get()
MergedGet ==
    /\ ~IsNone(merged)
    /\ Val(merged).queue # <<>>
    /\ merged' = Some([Val(merged) EXCEPT !.got = Append(@, Head(Val(merged).queue)),
                                          !.queue = Tail(@)])
    /\ UNCHANGED <<topics, subs, lock, exited, published, pipevars>>

\* ------------------------------------------------------------ input stream
\* accident_detector: happened = conf >= _DECISION_THRESH
Detection(conf, fidx, pts) ==
    [type |-> "accident", camera_id |-> CameraId,
     happened |-> (conf >= DECISION_THRESH), confidence |-> conf,
     frame_idx |-> fidx, pts_in_video |-> pts]

\* the first detection of a session, and the one that follows the last
\* detection after dt of video time
FirstDetection(conf, pts) == Detection(conf, 0, pts)
NextDetection(conf, dt) ==
    Detection(conf, Val(det).frame_idx + 1, Val(det).pts_in_video + dt)

Observe(d, dt) ==
    /\ hist' = Append(hist, d)
    /\ det' = Some(d)
    /\ ndet' = ndet + 1
    /\ ngap' = IF dt = DtFrame THEN ngap ELSE ngap + 1
    /\ nflip' = IF IsNone(det) \/ d.confidence = Val(det).confidence THEN nflip ELSE nflip + 1
    /\ run_len' = IF d.happened THEN run_len + 1 ELSE 0
    /\ run_first' = IF d.happened
                    THEN (IF run_len = 0 THEN Some(d) ELSE run_first)
                    ELSE None

\* ------------------------------------------------------------------ session
FreshAggregator ==
    /\ counter' = 0
    /\ ema' = 0
    /\ hap_streak' = 0
    /\ neg_streak' = 0
    /\ open' = None
    /\ last_seen_pts' = None
    /\ pending_close' = None
    /\ pending_close_time' = None

\* SessionManager.start_all -> SingleFileSession.start -> _start up to "await t_src"
Start(maxStart) ==
    /\ ~running
    /\ sup \in {"idle", "done"}
    /\ nstart < maxStart
    /\ nstart' = nstart + 1
    /\ running' = TRUE
    /\ FreshAggregator
    /\ t_src' = "running" /\ t_smp' = "running" /\ t_agg' = "running"
    /\ sup' = "await_src"
    /\ hist' = <<>> /\ det' = None /\ ndet' = 0 /\ ngap' = 0 /\ nflip' = 0
    /\ run_len' = 0 /\ run_first' = None
    /\ UNCHANGED <<published, busvars, detvars, extvars>>

\* AccidentAggregator.run: one iteration, det = await sub.get(); await _process(det)
AggRun(maxDet) ==
    /\ t_agg = "running"
    \* the task runs until it is cancelled: it has a turn whenever the
    \* supervisor is suspended; the end of flush and the cancel that follows
    \* it leave it no turn
    /\ sup \in {"await_src", "drain", "flush_pending", "flush_open", "done"}
    /\ ndet < maxDet
    /\ IF IsNone(det)
       THEN \E conf \in ConfSet, pts \in FirstPts :
               LET d == FirstDetection(conf, pts)
               IN  Process(d) /\ Observe(d, DtFrame)
       ELSE \E conf \in ConfSet, dt \in {DtFrame} \cup GapSet :
               /\ dt # DtFrame => ngap < MaxGap
               /\ conf # Val(det).confidence => nflip < MaxFlip
               /\ LET d == NextDetection(conf, dt)
                  IN  Process(d) /\ Observe(d, dt)
    /\ BusDelivers
    /\ UNCHANGED <<running, t_src, t_smp, sup, nstart, detvars, extvars>>

\* run_frame_source_raw reaches the end of the file
SourceEnd ==
    /\ t_src = "running"
    /\ t_src' = "done"
    /\ UNCHANGED <<aggvars, running, t_smp, t_agg, sup, published, obsvars, nstart, busvars, detvars, extvars>>

\* _start after "await t_src": cancel the sampler, then sleep(0.8)
SupCancelSampler ==
    /\ sup = "await_src"
    /\ t_src = "done"
    /\ t_smp' = "cancelled"
    /\ sup' = "drain"
    /\ UNCHANGED <<aggvars, running, t_src, t_agg, published, obsvars, nstart, busvars, detvars, extvars>>

\* mutant: the supervisor goes on to cancel the aggregator without flushing
SupFlush_Skip ==
    /\ sup = "drain"
    /\ sup' = "flushed"
    /\ UNCHANGED <<aggvars, published, running, t_src, t_smp, t_agg, obsvars, nstart, busvars, detvars, extvars>>

\* _start after the drain sleep: await aggregator.flush()
SupFlush ==
    /\ sup = "drain"
    /\ Flush
    /\ BusDelivers
    /\ sup' = "flushed"
    /\ UNCHANGED <<running, t_src, t_smp, t_agg, obsvars, nstart, detvars, extvars>>

\* mutant: the supervisor cancels the aggregator as soon as the drain interval
\* is over, without waiting for flush
SupCancelAgg_Early ==
    /\ sup \in {"drain", "flushed"}
    /\ t_agg' = IF t_agg = "running" THEN "cancelled" ELSE t_agg
    /\ running' = FALSE
    /\ sup' = "done"
    /\ UNCHANGED <<aggvars, t_src, t_smp, published, obsvars, nstart, busvars, detvars, extvars>>

\* _start: t_agg.cancel(); gather; finally: _running = False
SupCancelAgg ==
    /\ sup = "flushed"
    /\ t_agg' = IF t_agg = "running" THEN "cancelled" ELSE t_agg
    /\ running' = FALSE
    /\ sup' = "done"
    /\ UNCHANGED <<aggvars, t_src, t_smp, published, obsvars, nstart, busvars, detvars, extvars>>

\* SessionManager.stop_all -> SingleFileSession.stop -> _stop: cancel the tasks
Stop ==
    /\ running
    /\ t_src' = IF t_src = "running" THEN "cancelled" ELSE t_src
    /\ t_smp' = IF t_smp = "running" THEN "cancelled" ELSE t_smp
    /\ t_agg' = IF t_agg = "running" THEN "cancelled" ELSE t_agg
    /\ running' = FALSE
    /\ UNCHANGED <<aggvars, sup, published, obsvars, nstart, busvars, detvars, extvars>>

\* mutant: the supervisor passes over the cancellation without flushing
SupOnCancelled_NoFlush ==
    /\ sup = "await_src"
    /\ t_src = "cancelled"
    /\ running' = FALSE
    /\ sup' = "done"
    /\ UNCHANGED <<aggvars, published, t_src, t_smp, t_agg, obsvars, nstart, busvars, detvars, extvars>>

\* _start: "await t_src" raises CancelledError; except: flush(); finally
SupOnCancelled ==
    /\ sup = "await_src"
    /\ t_src = "cancelled"
    /\ Flush
    /\ BusDelivers
    /\ running' = FALSE
    /\ sup' = "done"
    /\ UNCHANGED <<t_src, t_smp, t_agg, obsvars, nstart, detvars, extvars>>

Init ==
    /\ counter = 0 /\ ema = 0 /\ hap_streak = 0 /\ neg_streak = 0
    /\ open = None /\ last_seen_pts = None
    /\ pending_close = None /\ pending_close_time = None
    /\ running = FALSE
    /\ t_src = "none" /\ t_smp = "none" /\ t_agg = "none"
    /\ sup = "idle"
    /\ published = <<>>
    /\ topics = [t \in {} |-> <<>>] /\ subs = <<>> /\ merged = None
    /\ lock = FALSE /\ exited = {}
    /\ camera_ids = <<>> /\ batch_size = 0 /\ bufs = [c \in {} |-> <<>>]
    /\ sched = "none" /\ batch_items = <<>> /\ collectors = [c \in {} |-> "none"]
    /\ dets_out = <<>>
    /\ target_fps = 0 /\ next_t = None /\ raw = <<>> /\ emitted = <<>>
    /\ INTENDED = {} /\ SESSIONS = [c \in {} |-> 0] /\ DETECTOR_TASK = None
    /\ sess = <<>> /\ req = [t \in {1, 2} |-> [pc |-> "idle", todo |-> <<>>]]
    /\ loopq = <<>> /\ nreg = 0
    /\ source = [c \in {"cam-1", "cam-2"} |->
                   [st |-> "none", is_file |-> TRUE, frame_idx |-> 0, nfail |-> 0]]
    /\ smp_sub = [c \in {"cam-1", "cam-2"} |-> 0]
    /\ fed = [c \in {"cam-1", "cam-2"} |-> [n |-> 0, idx |-> 0]]
    /\ col_sub = [c \in {"cam-1", "cam-2"} |-> None]
    /\ agg_sub = [c \in {"cam-1", "cam-2"} |-> None]
    /\ BG_LOOP = None /\ bg_loops = <<>> /\ BG_LOCK = 0
    /\ bgthr = [t \in {1, 2} |-> [pc |-> "idle", ret |-> None, n |-> 0]]
    /\ hist = <<>> /\ det = None /\ ndet = 0 /\ ngap = 0 /\ nflip = 0 /\ nstart = 0
    /\ run_len = 0 /\ run_first = None

\* One session of the camera, run to the end of its file.
Next ==
    \/ Start(1)
    \/ AggRun(MaxDet)
    \/ SourceEnd
    \/ SupCancelSampler
    \/ SupFlush
    \/ SupCancelAgg

Spec == Init /\ [][Next]_vars

\* The same with the scheduling of the event loop and a source that ends:
\* every enabled step of the source and the supervisor is eventually taken.
FairSpec ==
    /\ Init /\ [][Next]_vars
    /\ WF_vars(SourceEnd)
    /\ WF_vars(SupCancelSampler)
    /\ WF_vars(SupFlush)
    /\ WF_vars(SupCancelAgg)

\* Sessions of the camera stopped from outside and started again.
NextRestart ==
    \/ Start(MaxStart)
    \/ AggRun(MaxDetRestart)
    \/ SourceEnd
    \/ SupCancelSampler
    \/ SupFlush
    \/ SupCancelAgg
    \/ Stop
    \/ SupOnCancelled

SpecRestart == Init /\ [][NextRestart]_vars

\* run_frame_source_raw raises (cv2 fails on a frame): the task ends with the
\* exception; its finally block releases the capture
SourceRaises ==
    /\ t_src = "running"
    /\ t_src' = "failed"
    /\ UNCHANGED <<aggvars, running, t_smp, t_agg, sup, published, obsvars, nstart, busvars, detvars, extvars>>

\* _start: "await t_src" raises the exception of the source task;
\* except Exception: print; finally: _running = False
SupOnException ==
    /\ sup = "await_src"
    /\ t_src = "failed"
    /\ running' = FALSE
    /\ sup' = "done"
    /\ UNCHANGED <<aggvars, t_src, t_smp, t_agg, published, obsvars, nstart, busvars, detvars, extvars>>

\* One session of the camera whose source can fail.
NextFail ==
    \/ Start(1)
    \/ AggRun(MaxDetFail)
    \/ SourceEnd
    \/ SourceRaises
    \/ SupCancelSampler
    \/ SupFlush
    \/ SupCancelAgg
    \/ SupOnException

SpecFail == Init /\ [][NextFail]_vars

\* the topics of the pipeline of camera c, as each stage names them
SourceTopic(c) == topic_for("frames_raw", NoCamera)      \* run_frame_source_raw publishes
SamplerInTopic(c) == topic_for("frames_raw", NoCamera)   \* run_sampler_equal_time subscribes
SamplerTopic(c) == topic_for("frames", NoCamera)         \* run_sampler_equal_time publishes
CollectorTopic(c) == topic_for("frames", c)              \* _collector subscribes
DetectorTopic(c) == topic_for("accident", c)             \* the scheduler publishes
AggregatorTopic(c) == topic_for("accident", c)           \* AccidentAggregator.run subscribes

\* inputs of the bus clients
SingleTopics == {SamplerTopic(CameraId), CollectorTopic(CameraId)}
ModeSet == {"fifo", "latest"}
MaxsizeSet == {0, 2}
ManyMaxsizeSet == {0, 1}
ItemSet == {"x"}

\* The bus and the clients of subscribe: subscribers come and go, publishers
\* publish, consumers read.
NextBus ==
    \/ \E t \in SingleTopics, m \in ModeSet, n \in MaxsizeSet : Subscribe(t, m, n)
    \/ \E i \in DOMAIN subs : Unsubscribe(i)
    \/ \E t \in SingleTopics, x \in ItemSet : BusPublish(t, x, MaxPub)
    \/ \E i \in DOMAIN subs : Get(i)

SpecBus == Init /\ [][NextBus]_vars

\* The bus and one subscribe_many handle on the topics SessionManager.stream
\* subscribes, with its forward tasks and its consumer.
NextMany ==
    \/ \E n \in ManyMaxsizeSet : SubscribeMany(PipeTopics(<<CameraId>>), "fanout", n)
    \/ \E i \in DOMAIN subs : ForwardGet(i)
    \/ \E i \in DOMAIN subs : ForwardPut(i)
    \/ \E t \in Range(PipeTopics(<<CameraId>>)), x \in ItemSet : BusPublish(t, x, MaxPubMany)
    \/ MergedGet

SpecMany == Init /\ [][NextMany]_vars

\* The bus with handles of both kinds on the same topics: scopes are entered
\* and left, topics are closed and subscribed again, publishers publish, the
\* forward tasks and the consumers read.
ScopeTopics == Range(PipeTopics(<<CameraId>>))
NextScope ==
    \/ \E t \in ScopeTopics : Subscribe(t, "fifo", 1)
    \/ \E i \in DOMAIN subs : Unsubscribe(i)
    \/ SubscribeMany(PipeTopics(<<CameraId>>), "fanout", 1)
    \/ UnsubscribeMany
    \/ \E t \in ScopeTopics : CloseTopic(t)
    \/ \E t \in ScopeTopics, x \in ItemSet : BusPublish(t, x, MaxPubScope)
    \/ \E i \in DOMAIN subs : ForwardGet(i)
    \/ \E i \in DOMAIN subs : ForwardPut(i)
    \/ \E i \in DOMAIN subs : Get(i)
    \/ MergedGet

SpecScope == Init /\ [][NextScope]_vars

\* One session of the camera with consumers that subscribe its open and close
\* topics at any time and read what the aggregator publishes.
FanoutTopics == {topic_for(TOPIC_OPEN_BASE, CameraId), topic_for(TOPIC_CLOSE_BASE, CameraId)}
NextFanout ==
    \/ Start(1)
    \/ AggRun(MaxDetFan)
    \/ SourceEnd
    \/ SupCancelSampler
    \/ SupFlush
    \/ SupCancelAgg
    \/ \E t \in FanoutTopics, n \in MaxsizeSet : Subscribe(t, "fifo", n)
    \/ \E i \in DOMAIN subs : Get(i)

SpecFanout == Init /\ [][NextFanout]_vars

\* ---------------------------------------------------------------- scheduler
\* events.bus.Frame, without the image
Frame(cam, fidx, pts) == [camera_id |-> cam, frame_idx |-> fidx, pts_in_video |-> pts]

\* mutant: the Detection keeps the default camera
DetectionOf_Unkeyed(cam, frame, conf) ==
    Detection(conf, frame.frame_idx, frame.pts_in_video)

\* the Detection the scheduler builds for an item and its score
DetectionOf(cam, frame, conf) ==
    [Detection(conf, frame.frame_idx, frame.pts_in_video) EXCEPT !.camera_id = cam]

\* mutant: a full deque refuses the new element
DequeAppend_DropNewest(q, x, maxlen) ==
    IF Len(q) >= maxlen THEN q ELSE Append(q, x)

\* mutant: the new element enters at the left end
DequeAppend_Left(q, x, maxlen) ==
    IF Len(q) >= maxlen THEN <<x>> \o SubSeq(q, 1, Len(q) - 1) ELSE <<x>> \o q

\* deque(maxlen).append: a full deque drops its leftmost element
DequeAppend(q, x, maxlen) ==
    IF Len(q) >= maxlen THEN Append(Tail(q), x) ELSE Append(q, x)

\* mutant: one pass over the cameras, at most one frame of each
RECURSIVE Assemble_OnePass(_, _, _, _)
Assemble_OnePass(items, cams_round, b, size) ==
    IF Len(items) < size /\ cams_round # <<>>
    THEN LET cam == Head(cams_round)
             take == b[cam] # <<>>
         IN  Assemble_OnePass(IF take THEN Append(items, [cam |-> cam, frame |-> Head(b[cam])])
                              ELSE items,
                              Tail(cams_round),
                              IF take THEN [b EXCEPT ![cam] = Tail(@)] ELSE b,
                              size)
    ELSE [items |-> items, bufs |-> b]

\* the inner while loop of the scheduler: batch_items and bufs when it ends
RECURSIVE Assemble(_, _, _, _)
Assemble(items, cams_round, b, size) ==
    IF Len(items) < size /\ cams_round # <<>>
    THEN LET cam == Head(cams_round)
             take == b[cam] # <<>>
             items1 == IF take THEN Append(items, [cam |-> cam, frame |-> Head(b[cam])])
                       ELSE items
             b1 == IF take THEN [b EXCEPT ![cam] = Tail(@)] ELSE b
             round1 == Append(Tail(cams_round), cam)
         IN  IF \A c \in Range(camera_ids) : b1[c] = <<>>
             THEN [items |-> items1, bufs |-> b1]
             ELSE Assemble(items1, round1, b1, size)
    ELSE [items |-> items, bufs |-> b]

\* run_accident_detector_multi up to its loop: bufs and the collector tasks
DetStart(ids, size) ==
    /\ sched = "none"
    /\ camera_ids' = ids
    /\ batch_size' = size
    /\ bufs' = [c \in Range(ids) |-> <<>>]
    /\ collectors' = [c \in Range(ids) |-> "running"]
    /\ sched' = "assemble"
    /\ UNCHANGED <<batch_items, dets_out, aggvars, sessvars, obsvars, nstart, published, busvars, extvars>>

\* mutant: the collectors stand still while a scoring call is in flight
Collector_Blocked(cam, f) ==
    /\ sched # "infer"
    /\ cam \in DOMAIN collectors
    /\ collectors[cam] = "running"
    /\ bufs' = [bufs EXCEPT ![cam] = DequeAppend(@, f, BufMaxlen)]
    /\ UNCHANGED <<camera_ids, batch_size, sched, batch_items, collectors, dets_out,
                   aggvars, sessvars, obsvars, nstart, published, busvars, extvars>>

\* _collector(cam): f = await q.get(); bufs[cam].append(f)
Collector(cam, f) ==
    /\ cam \in DOMAIN collectors
    /\ collectors[cam] = "running"
    /\ bufs' = [bufs EXCEPT ![cam] = DequeAppend(@, f, BufMaxlen)]
    /\ UNCHANGED <<camera_ids, batch_size, sched, batch_items, collectors, dets_out,
                   aggvars, sessvars, obsvars, nstart, published, busvars, extvars>>

\* one pass of the loop up to its await: the batch is assembled; an empty
\* batch goes to asyncio.sleep(poll_ms / 1000), any other to run_in_executor
AssembleBatch ==
    /\ sched = "assemble"
    \* batch_items = []; cams_round = list(camera_ids)
    /\ LET r == Assemble(<<>>, camera_ids, bufs, batch_size)
       IN  /\ batch_items' = r.items
           /\ bufs' = r.bufs
           /\ sched' = IF r.items = <<>> THEN "sleep" ELSE "infer"
    /\ UNCHANGED <<camera_ids, batch_size, collectors, dets_out,
                   aggvars, sessvars, obsvars, nstart, published, busvars, extvars>>

\* the sleep of an empty pass is over: continue
SleepDone ==
    /\ sched = "sleep"
    /\ sched' = "assemble"
    /\ UNCHANGED <<camera_ids, batch_size, bufs, batch_items, collectors, dets_out,
                   aggvars, sessvars, obsvars, nstart, published, busvars, extvars>>

\* the results a scoring call can hold for an image: no box, or boxes with
\* their largest confidence
ResultSet == {None} \cup {Some(c) : c \in ConfSet}

\* the confidence read from a result: 0.0 without boxes, else confs.max()
ConfOf(res) == IF IsNone(res) THEN 0 ELSE Val(res)

\* engine.infer_batch returns: the results are zipped with batch_items, one
\* Detection per item is published on accident:<cam>, and the loop starts
\* over.  dets_out keeps each published detection with the result it was
\* built from.
InferDone ==
    /\ sched = "infer"
    /\ \E results \in [DOMAIN batch_items -> ResultSet] :
          dets_out' = [k \in DOMAIN batch_items |->
                         [topic |-> DetectorTopic(batch_items[k].cam),
                          det |-> DetectionOf(batch_items[k].cam, batch_items[k].frame,
                                              ConfOf(results[k])),
                          res |-> results[k]]]
    /\ batch_items' = <<>>
    /\ sched' = "assemble"
    /\ UNCHANGED <<camera_ids, batch_size, bufs, collectors,
                   aggvars, sessvars, obsvars, nstart, published, busvars, extvars>>

\* engine.infer_batch raises: the exception leaves the loop through the
\* finally block and ends the scheduler task.  The finally block cancels the
\* first collector and awaits it; the CancelledError of that await is no
\* Exception, so it leaves the block with the other collectors still running.
InferRaises ==
    /\ sched = "infer"
    /\ sched' = "failed"
    /\ collectors' = [collectors EXCEPT ![camera_ids[1]] = "cancelled"]
    /\ UNCHANGED <<camera_ids, batch_size, bufs, batch_items, dets_out,
                   aggvars, sessvars, obsvars, nstart, published, busvars, extvars>>

\* inputs of the scheduler
CameraLists == {<<"cam-1">>, <<"cam-1", "cam-2">>}
BatchSizes == {1, 2}
FrameSet(cam) == {Frame(cam, k, k * DtFrame) : k \in 0..MaxFrameIdx}

\* The batch scheduler fed by its collectors.
NextDet ==
    \/ \E ids \in CameraLists, size \in BatchSizes : DetStart(ids, size)
    \/ \E cam \in DOMAIN collectors : \E f \in FrameSet(cam) : Collector(cam, f)
    \/ AssembleBatch
    \/ SleepDone
    \/ InferDone
    \/ InferRaises

SpecDet == Init /\ [][NextDet]_vars

\* The same with the loop of the scheduler and the executor scheduled: a batch
\* is assembled at every pass of the loop, a sleep and a scoring call end.
FairDet ==
    /\ Init /\ [][NextDet]_vars
    /\ WF_vars(AssembleBatch)
    /\ WF_vars(SleepDone)
    /\ WF_vars(InferDone \/ InferRaises)

\* ------------------------------------------------------------------ sampler
\* The sampler's clock counts ticks of 1e-4 s, the size of jitter_epsilon.
TicksPerSec == 10000
JITTER_EPSILON == 1                         \* jitter_epsilon = 1e-4

\* step = 1.0 / max(1e-3, target_fps), for the rates whose step is whole ticks
StepOf(fps) == TicksPerSec \div fps

\* mutant: the sampler emits a frame at most once
SamplerEmit_Once(pts, next, step) ==
    IF pts + JITTER_EPSILON >= next THEN [n |-> 1, next_t |-> next + step]
    ELSE [n |-> 0, next_t |-> next]

\* while f.pts_in_video + jitter_epsilon >= next_t: publish; next_t += step.
\* The number of publishes and next_t when the loop ends.
RECURSIVE SamplerEmit(_, _, _)
SamplerEmit(pts, next, step) ==
    IF pts + JITTER_EPSILON >= next
    THEN LET r == SamplerEmit(pts, next + step, step)
         IN  [n |-> r.n + 1, next_t |-> r.next_t]
    ELSE [n |-> 0, next_t |-> next]

\* n times the frame
Repeat(f, n) == [k \in 1..n |-> f]

\* run_sampler_equal_time(bus, CameraId, fps) up to its loop
SamplerStart(fps) ==
    /\ target_fps = 0
    /\ target_fps' = fps
    /\ UNCHANGED <<next_t, raw, emitted,
                   aggvars, sessvars, obsvars, nstart, published, busvars, detvars, mgrvars, addvars>>

\* one iteration of the loop: f = await sub.get(), the camera filter, the
\* alignment of next_t to the first frame, and the emissions
SamplerRecv(f) ==
    /\ target_fps # 0
    /\ Len(raw) < MaxRaw
    /\ raw' = Append(raw, f)
    /\ IF f.camera_id # CameraId
       THEN UNCHANGED <<next_t, emitted>>
       ELSE LET next0 == IF IsNone(next_t) THEN f.pts_in_video ELSE Val(next_t)
                r == SamplerEmit(f.pts_in_video, next0, StepOf(target_fps))
            IN  /\ next_t' = Some(r.next_t)
                /\ emitted' = emitted \o Repeat(f, r.n)
    /\ UNCHANGED <<target_fps,
                   aggvars, sessvars, obsvars, nstart, published, busvars, detvars, mgrvars, addvars>>

\* the raw frames: pts steps between the frames of the camera, the frames of
\* another camera that arrive on the shared topic frames_raw
FpsSet == {5, 10}
RawFirstPts == {0, 250}
RawSteps == {400, 500, 999, 1100, 2000}
OtherCamera == "cam-2"
OwnRaw == SelectSeq(raw, LAMBDA f : f.camera_id = CameraId)
RawFrames ==
    IF OwnRaw = <<>>
    THEN {Frame(CameraId, 0, pts) : pts \in RawFirstPts}
    ELSE {Frame(CameraId, Len(OwnRaw), OwnRaw[Len(OwnRaw)].pts_in_video + d) : d \in RawSteps}
OtherFrames == {Frame(OtherCamera, 0, 5000)}

\* The sampler fed with the raw frames of the bus.
NextSampler ==
    \/ \E fps \in FpsSet : SamplerStart(fps)
    \/ \E f \in RawFrames \cup OtherFrames : SamplerRecv(f)

SpecSampler == Init /\ [][NextSampler]_vars

\* ------------------------------------------------------------------ manager
\* The request threads of the web server call SessionManager; the coroutines
\* they hand over with run_coroutine_threadsafe run later, on the loop thread.
Threads == {1, 2}
Cams == {"cam-1", "cam-2"}

\* list(d.keys()) of a dict whose keys are among the cameras; the order of
\* insertion is not kept, the list is in the order of the camera names
RECURSIVE KeyList(_)
KeyList(ks) ==
    IF ks = {} THEN <<>>
    ELSE LET c == CHOOSE x \in ks : \A y \in ks : x = "cam-1" \/ y # "cam-1"
         IN  <<c>> \o KeyList(ks \ {c})

\* what is left of start_all and stop_all for the pipeline stages
OtherStages == <<aggvars, sessvars, obsvars, nstart, published, busvars, smpvars, addvars>>

\* SessionManager.register([cid])
Register(cid) ==
    /\ nreg < MaxReg
    /\ nreg' = nreg + 1
    /\ INTENDED' = INTENDED \cup {cid}
    /\ UNCHANGED <<SESSIONS, DETECTOR_TASK, sess, req, loopq, detvars, OtherStages>>

\* start_all: camera_ids = list(rt.INTENDED.keys()); return if it is empty
StartAllBegin(t) ==
    /\ req[t].pc = "idle"
    /\ INTENDED # {}
    /\ req' = [req EXCEPT ![t] = [pc |-> "loop", todo |-> KeyList(INTENDED)]]
    /\ UNCHANGED <<INTENDED, SESSIONS, DETECTOR_TASK, sess, loopq, nreg, detvars, OtherStages>>

\* start_all, for cid in camera_ids: if cid not in rt.SESSIONS
StartAllCheck(t) ==
    /\ req[t].pc = "loop"
    /\ req[t].todo # <<>>
    /\ req' = [req EXCEPT ![t] =
                 IF Head(req[t].todo) \in DOMAIN SESSIONS
                 THEN [pc |-> "loop", todo |-> Tail(req[t].todo)]
                 ELSE [pc |-> "create", todo |-> req[t].todo]]
    /\ UNCHANGED <<INTENDED, SESSIONS, DETECTOR_TASK, sess, loopq, nreg, detvars, OtherStages>>

\* SingleFileSession.start: if self._running: return; else _start is handed
\* to the loop.  The loop's queue after the call.
StartCall(sid, is_running) ==
    IF is_running THEN loopq ELSE Append(loopq, [co |-> "_start", sid |-> sid])

\* start_all: sess = SingleFileSession(...); sess.start(loop); SESSIONS[cid] = sess
StartAllCreate(t) ==
    /\ req[t].pc = "create"
    /\ Len(sess) < MaxSess
    /\ LET cid == Head(req[t].todo)
           sid == Len(sess) + 1
       IN  /\ sess' = Append(sess, [cam |-> cid, running |-> FALSE, tasks |-> "none",
                                    stop_req |-> FALSE])
           /\ loopq' = StartCall(sid, FALSE)
           /\ SESSIONS' = DictSet(SESSIONS, cid, sid)
    /\ req' = [req EXCEPT ![t] = [pc |-> "loop", todo |-> Tail(req[t].todo)]]
    /\ UNCHANGED <<INTENDED, DETECTOR_TASK, nreg, detvars, OtherStages>>

\* start_all: if rt.DETECTOR_TASK is None or done: a new _run_multi over
\* active_cams.  (The scheduler does not end by itself here.)
DetectorTask(task, active_cams) ==
    IF IsNone(task) THEN Some(active_cams) ELSE task

\* start_all after its loop: active_cams = list(rt.SESSIONS.keys()), the
\* scheduler task
StartAllDetector(t) ==
    /\ req[t].pc = "loop"
    /\ req[t].todo = <<>>
    /\ DETECTOR_TASK' = IF DOMAIN SESSIONS = {} THEN DETECTOR_TASK
                        ELSE DetectorTask(DETECTOR_TASK, KeyList(DOMAIN SESSIONS))
    /\ req' = [req EXCEPT ![t] = [pc |-> "idle", todo |-> <<>>]]
    /\ UNCHANGED <<INTENDED, SESSIONS, sess, loopq, nreg, detvars, OtherStages>>

\* the sessions stop_all stops
Known == {SESSIONS[c] : c \in DOMAIN SESSIONS}

\* SingleFileSession.stop of each session of stop_all: if not self._running:
\* return; else _stop is handed to the loop.  The loop's queue after the calls.
RECURSIVE StopCalls(_, _)
StopCalls(q, sids) ==
    IF sids = {} THEN q
    ELSE LET sid == CHOOSE x \in sids : \A y \in sids : x <= y
         IN  StopCalls(IF sess[sid].running THEN Append(q, [co |-> "_stop", sid |-> sid]) ELSE q,
                       sids \ {sid})

\* SessionManager.stop_all: stop every session, forget it and its camera;
\* cancel the scheduler task (the running scheduler leaves its loop through
\* its finally block) and forget it.  It is called here while no start_all is
\* under way.
StopAll ==
    /\ \A t \in Threads : req[t].pc = "idle"
    /\ SESSIONS # [c \in {} |-> 0] \/ ~IsNone(DETECTOR_TASK)
    /\ loopq' = StopCalls(loopq, Known)
    /\ sess' = [i \in DOMAIN sess |->
                  IF i \in Known THEN [sess[i] EXCEPT !.stop_req = TRUE] ELSE sess[i]]
    /\ INTENDED' = INTENDED \ DOMAIN SESSIONS
    /\ SESSIONS' = [c \in {} |-> 0]
    /\ DETECTOR_TASK' = None
    /\ sched' = "none"
    /\ collectors' = IF sched = "none" THEN collectors
                     ELSE [collectors EXCEPT ![camera_ids[1]] = "cancelled"]
    /\ UNCHANGED <<req, nreg, camera_ids, batch_size, bufs, batch_items, dets_out, OtherStages>>

\* the loop runs _start of a session: _running = True, the three tasks
LoopStart ==
    /\ loopq # <<>>
    /\ Head(loopq).co = "_start"
    /\ sess' = [sess EXCEPT ![Head(loopq).sid] = [@ EXCEPT !.running = TRUE, !.tasks = "running"]]
    /\ loopq' = Tail(loopq)
    /\ UNCHANGED <<INTENDED, SESSIONS, DETECTOR_TASK, req, nreg, detvars, OtherStages>>

\* the loop runs _stop of a session: the tasks are cancelled and awaited,
\* _running = False
LoopStop ==
    /\ loopq # <<>>
    /\ Head(loopq).co = "_stop"
    /\ sess' = [sess EXCEPT ![Head(loopq).sid] =
                  [@ EXCEPT !.running = FALSE,
                            !.tasks = IF @ = "running" THEN "cancelled" ELSE @]]
    /\ loopq' = Tail(loopq)
    /\ UNCHANGED <<INTENDED, SESSIONS, DETECTOR_TASK, req, nreg, detvars, OtherStages>>

\* the loop runs _run_multi: run_accident_detector_multi(camera_ids=active_cams,
\* batch_size=4)
RunMulti ==
    /\ ~IsNone(DETECTOR_TASK)
    /\ DetStart(Val(DETECTOR_TASK), 4)

\* The manager called from two request threads, and the loop.
NextManager ==
    \/ \E c \in Cams : Register(c)
    \/ \E t \in Threads : StartAllBegin(t)
    \/ \E t \in Threads : StartAllCheck(t)
    \/ \E t \in Threads : StartAllCreate(t)
    \/ \E t \in Threads : StartAllDetector(t)
    \/ StopAll
    \/ LoopStart
    \/ LoopStop
    \/ RunMulti

SpecManager == Init /\ [][NextManager]_vars

\* ------------------------------------------------------------- frame source
\* the stages a frame source leaves alone
SrcOther == <<aggvars, sessvars, obsvars, nstart, merged, lock, exited, detvars, smpvars, mgrvars, ordvars, bgvars>>

\* run_frame_source_raw(bus, camera_id, url_or_path) up to its loop
SourceStart(c, is_file) ==
    /\ source[c].st = "none"
    /\ source' = [source EXCEPT ![c] = [st |-> "running", is_file |-> is_file,
                                        frame_idx |-> 0, nfail |-> 0]]
    /\ UNCHANGED <<published, busvars, smp_sub, SrcOther>>

\* cap.read() returns a frame: it is published on "frames_raw" with the
\* current frame_idx, and frame_idx advances
SourceRead(c) ==
    /\ source[c].st = "running"
    /\ source[c].frame_idx < MaxSrcFrames
    /\ LET f == Frame(c, source[c].frame_idx, source[c].frame_idx * DtFrame)
       IN  /\ published' = Append(published, [topic |-> SourceTopic(c), ev |-> f, by |-> nstart])
           /\ subs' = Fanout(subs, topics, SourceTopic(c), Len(published) + 1)
           /\ topics' = PublishTopics(topics, SourceTopic(c))
    /\ source' = [source EXCEPT ![c].frame_idx = @ + 1]
    /\ UNCHANGED <<smp_sub, SrcOther>>

\* cap.read() fails: a file source leaves its loop, a live source sleeps
\* 0.01 s and reads again
SourceReadFails(c) ==
    /\ source[c].st = "running"
    /\ IF source[c].is_file
       THEN source' = [source EXCEPT ![c].st = "ended"]
       ELSE /\ source[c].nfail < MaxReadFail
            /\ source' = [source EXCEPT ![c].nfail = @ + 1]
    /\ UNCHANGED <<published, busvars, smp_sub, SrcOther>>

\* run_sampler_equal_time(bus, camera_id): bus.subscribe("frames_raw") with
\* the default mode and maxsize
SamplerSubscribe(c) ==
    /\ smp_sub[c] = 0
    /\ subs' = Append(subs, NewSubscriber(SamplerInTopic(c), "fifo", RawQueueCap, FALSE))
    /\ topics' = DictSet(topics, SamplerInTopic(c),
                         Append(DictGet(topics, SamplerInTopic(c), <<>>), Len(subs) + 1))
    /\ smp_sub' = [smp_sub EXCEPT ![c] = Len(subs) + 1]
    /\ UNCHANGED <<published, source, SrcOther>>

\* run_sampler_equal_time: f = await sub.get()
SamplerGet(c) ==
    /\ smp_sub[c] # 0
    /\ Get(smp_sub[c])

\* The frame sources and the samplers of two cameras on the shared bus.
NextSource ==
    \/ \E c \in {"cam-1", "cam-2"}, is_file \in BOOLEAN : SourceStart(c, is_file)
    \/ \E c \in {"cam-1", "cam-2"} : SourceRead(c)
    \/ \E c \in {"cam-1", "cam-2"} : SourceReadFails(c)
    \/ \E c \in {"cam-1", "cam-2"} : SamplerSubscribe(c)
    \/ \E c \in {"cam-1", "cam-2"} : SamplerGet(c)

SpecSource == Init /\ [][NextSource]_vars

\* ------------------------------------------------- frames to the aggregator
\* the stages the path from frames:<cam> to the aggregator leaves alone
OrdOther == <<aggvars, sessvars, obsvars, nstart, published, busvars, smpvars, mgrvars, srcvars, bgvars>>

\* _Subscriber.deliver on the path to the aggregator; the record of the items
\* evicted so far is not kept here
Put(s, item) == [Deliver(s, item) EXCEPT !.lost = <<>>]

\* a frame is published on frames:<cam>.  The frames of a camera come in the
\* order of their frame_idx, a frame can come again (the sampler publishes a
\* frame once per grid point it covers) and frames can be missing.
FramePublish(c) ==
    /\ fed["cam-1"].n + fed["cam-2"].n < MaxFeed
    /\ \E idx \in {fed[c].idx, fed[c].idx + 1} :
          LET f == Frame(c, idx, idx * DtFrame)
          IN  /\ fed' = [fed EXCEPT ![c] = [n |-> @.n + 1, idx |-> idx]]
              /\ col_sub' = IF IsNone(col_sub[c]) THEN col_sub
                            ELSE [col_sub EXCEPT ![c] = Some(Put(Val(@), f))]
    /\ UNCHANGED <<agg_sub, detvars, OrdOther>>

\* run_accident_detector_multi up to its loop, with the subscriptions of its
\* collectors
OrdDetStart(ids, size) ==
    /\ sched = "none"
    /\ camera_ids' = ids
    /\ batch_size' = size
    /\ bufs' = [c \in Range(ids) |-> <<>>]
    /\ collectors' = [c \in Range(ids) |-> "running"]
    /\ col_sub' = [c \in DOMAIN col_sub |->
                     IF c \in Range(ids)
                     THEN Some(NewSubscriber(CollectorTopic(c), "fifo", ColQueueCap, FALSE))
                     ELSE col_sub[c]]
    /\ sched' = "assemble"
    /\ UNCHANGED <<batch_items, dets_out, fed, agg_sub, OrdOther>>

\* _collector(cam): f = await q.get(); bufs[cam].append(f)
CollectorTake(c) ==
    /\ c \in DOMAIN collectors
    /\ collectors[c] = "running"
    /\ ~IsNone(col_sub[c])
    /\ Val(col_sub[c]).queue # <<>>
    /\ bufs' = [bufs EXCEPT ![c] = DequeAppend(@, Head(Val(col_sub[c]).queue), BufMaxlen)]
    /\ col_sub' = [col_sub EXCEPT ![c] = Some([Val(@) EXCEPT !.queue = Tail(@)])]
    /\ UNCHANGED <<camera_ids, batch_size, sched, batch_items, collectors, dets_out,
                   fed, agg_sub, OrdOther>>

\* AccidentAggregator.run: bus.subscribe(accident:<cam>, mode="fifo", maxsize=128)
AggSubscribe(c) ==
    /\ IsNone(agg_sub[c])
    /\ agg_sub' = [agg_sub EXCEPT ![c] =
                      Some(NewSubscriber(AggregatorTopic(c), "fifo", AggQueueCap, FALSE))]
    /\ UNCHANGED <<fed, col_sub, detvars, OrdOther>>

\* the publish calls of the scheduler for dets, one after the other, as they
\* reach the subscriptions of the aggregators
RECURSIVE DeliverAll(_, _)
DeliverAll(as, dets) ==
    IF dets = <<>> THEN as
    ELSE LET c == Head(dets).det.camera_id
         IN  DeliverAll(IF c \in DOMAIN as /\ ~IsNone(as[c])
                           /\ Val(as[c]).topic = Head(dets).topic
                        THEN [as EXCEPT ![c] = Some(Put(Val(@), Head(dets).det))]
                        ELSE as,
                        Tail(dets))

\* engine.infer_batch returns: one Detection per item is published on
\* accident:<cam> and reaches the subscription of that camera's aggregator
ScoredPublish ==
    /\ sched = "infer"
    /\ \E results \in [DOMAIN batch_items -> ResultSet] :
          LET dets == [k \in DOMAIN batch_items |->
                         [topic |-> DetectorTopic(batch_items[k].cam),
                          det |-> DetectionOf(batch_items[k].cam, batch_items[k].frame,
                                              ConfOf(results[k])),
                          res |-> results[k]]]
          IN  /\ dets_out' = dets
              /\ agg_sub' = DeliverAll(agg_sub, dets)
    /\ batch_items' = <<>>
    /\ sched' = "assemble"
    /\ UNCHANGED <<camera_ids, batch_size, bufs, collectors, fed, col_sub, OrdOther>>

\* AccidentAggregator.run: det = await sub.get(); got keeps the detection
\* handed to the aggregator last
AggGet(c) ==
    /\ ~IsNone(agg_sub[c])
    /\ Val(agg_sub[c]).queue # <<>>
    /\ agg_sub' = [agg_sub EXCEPT ![c] =
                      Some([Val(@) EXCEPT !.got = <<Head(Val(agg_sub[c]).queue)>>,
                                          !.queue = Tail(@)])]
    /\ UNCHANGED <<fed, col_sub, detvars, OrdOther>>

\* The path of the frames of two cameras from frames:<cam> through the
\* collectors, the buffers and the batches to the aggregators.
NextOrder ==
    \/ \E ids \in CameraLists, size \in BatchSizes : OrdDetStart(ids, size)
    \/ \E c \in {"cam-1", "cam-2"} : FramePublish(c)
    \/ \E c \in {"cam-1", "cam-2"} : CollectorTake(c)
    \/ \E c \in {"cam-1", "cam-2"} : AggSubscribe(c)
    \/ \E c \in {"cam-1", "cam-2"} : AggGet(c)
    \/ AssembleBatch
    \/ SleepDone
    \/ ScoredPublish

SpecOrder == Init /\ [][NextOrder]_vars

\* ---------------------------------------------------------- background loop
\* everything but the background loop
BgOther == <<aggvars, sessvars, obsvars, nstart, published, busvars, detvars,
             smpvars, mgrvars, srcvars, ordvars>>

\* loop.is_closed(); no code of the repository closes a loop
IsClosed(l) == bg_loops[l].st = "closed"

\* ensure_bg_loop: with _BG_LOCK
EnsureEnter(t) ==
    /\ bgthr[t].pc = "idle"
    /\ bgthr[t].n < MaxBgCalls
    /\ BG_LOCK = 0
    /\ BG_LOCK' = t
    /\ bgthr' = [bgthr EXCEPT ![t].pc = "ensure", ![t].n = @ + 1]
    /\ UNCHANGED <<BG_LOOP, bg_loops, BgOther>>

\* ensure_bg_loop inside the lock: a loop and its thread are made when
\* _BG_LOOP is None or closed; the lock is released and _BG_LOOP returned
EnsureBody(t) ==
    /\ bgthr[t].pc = "ensure"
    /\ IF IsNone(BG_LOOP) \/ IsClosed(Val(BG_LOOP))
       THEN /\ bg_loops' = Append(bg_loops, [st |-> "starting", stop_req |-> FALSE,
                                             pending |-> 0, done |-> 0])
            /\ BG_LOOP' = Some(Len(bg_loops) + 1)
       ELSE UNCHANGED <<BG_LOOP, bg_loops>>
    /\ BG_LOCK' = 0
    /\ bgthr' = [bgthr EXCEPT ![t].pc = "idle", ![t].ret = BG_LOOP']
    /\ UNCHANGED BgOther

\* the thread "trafficai-bg-loop": runner() reaches loop.run_forever()
Runner(l) ==
    /\ bg_loops[l].st = "starting"
    /\ bg_loops' = [bg_loops EXCEPT ![l].st = "running"]
    /\ UNCHANGED <<BG_LOOP, BG_LOCK, bgthr, BgOther>>

\* stop_bg_loop: _BG_LOOP.call_soon_threadsafe(_BG_LOOP.stop) when there is a
\* loop and it is not closed
StopBgLoop(t) ==
    /\ bgthr[t].pc = "idle"
    /\ bgthr[t].n < MaxBgCalls
    /\ bgthr' = [bgthr EXCEPT ![t].n = @ + 1]
    /\ bg_loops' = IF ~IsNone(BG_LOOP) /\ ~IsClosed(Val(BG_LOOP))
                   THEN [bg_loops EXCEPT ![Val(BG_LOOP)].stop_req = TRUE]
                   ELSE bg_loops
    /\ UNCHANGED <<BG_LOOP, BG_LOCK, BgOther>>

\* the loop runs its stop callback: run_forever returns, runner() and its
\* thread end; the loop is stopped, not closed
RunForeverReturns(l) ==
    /\ bg_loops[l].st = "running"
    /\ bg_loops[l].stop_req
    /\ bg_loops' = [bg_loops EXCEPT ![l].st = "stopped", ![l].stop_req = FALSE]
    /\ UNCHANGED <<BG_LOOP, BG_LOCK, bgthr, BgOther>>

\* asyncio.run_coroutine_threadsafe(coro, loop) with the loop ensure_bg_loop
\* returned to the thread
SubmitWork(t) ==
    /\ bgthr[t].pc = "idle"
    /\ ~IsNone(bgthr[t].ret)
    /\ LET l == Val(bgthr[t].ret)
       IN  /\ bg_loops[l].pending + bg_loops[l].done < MaxWork
           /\ bg_loops' = [bg_loops EXCEPT ![l].pending = @ + 1]
    /\ UNCHANGED <<BG_LOOP, BG_LOCK, bgthr, BgOther>>

\* a running loop runs a coroutine handed to it
RunWork(l) ==
    /\ bg_loops[l].st = "running"
    /\ bg_loops[l].pending > 0
    /\ bg_loops' = [bg_loops EXCEPT ![l].pending = @ - 1, ![l].done = @ + 1]
    /\ UNCHANGED <<BG_LOOP, BG_LOCK, bgthr, BgOther>>

\* Two request threads call ensure_bg_loop and stop_bg_loop and hand work to
\* the loop they were given.
NextBg ==
    \/ \E t \in {1, 2} : EnsureEnter(t)
    \/ \E t \in {1, 2} : EnsureBody(t)
    \/ \E l \in DOMAIN bg_loops : Runner(l)
    \/ \E t \in {1, 2} : StopBgLoop(t)
    \/ \E l \in DOMAIN bg_loops : RunForeverReturns(l)
    \/ \E t \in {1, 2} : SubmitWork(t)
    \/ \E l \in DOMAIN bg_loops : RunWork(l)

SpecBg == Init /\ [][NextBg]_vars

\* ------------------------------------------------------ free happened flags
\* a Detection whose happened flag is set by its publisher: _process reads
\* det.happened and det.confidence separately
FlaggedDetection(d, happened) == [d EXCEPT !.happened = happened]

\* Observe for detections with free flags: a flip is a change of the
\* confidence or of the flag
ObserveAny(d, dt) ==
    /\ hist' = Append(hist, d)
    /\ det' = Some(d)
    /\ ndet' = ndet + 1
    /\ ngap' = IF dt = DtFrame THEN ngap ELSE ngap + 1
    /\ nflip' = IF IsNone(det) \/ (d.confidence = Val(det).confidence
                                    /\ d.happened = Val(det).happened)
                THEN nflip ELSE nflip + 1
    /\ run_len' = IF d.happened THEN run_len + 1 ELSE 0
    /\ run_first' = IF d.happened
                    THEN (IF run_len = 0 THEN Some(d) ELSE run_first)
                    ELSE None

\* AccidentAggregator.run: one iteration, for a detection with any confidence
\* and any happened flag
AggRunAny(maxDet) ==
    /\ t_agg = "running"
    /\ sup \in {"await_src", "drain", "done"}
    /\ ndet < maxDet
    /\ IF IsNone(det)
       THEN \E conf \in ConfSet, h \in BOOLEAN, pts \in FirstPts :
               LET d == FlaggedDetection(FirstDetection(conf, pts), h)
               IN  Process(d) /\ ObserveAny(d, DtFrame)
       ELSE \E conf \in ConfSet, h \in BOOLEAN, dt \in {DtFrame} \cup GapSet :
               /\ dt # DtFrame => ngap < MaxGap
               /\ (conf # Val(det).confidence \/ h # Val(det).happened) => nflip < MaxFlip
               /\ LET d == FlaggedDetection(NextDetection(conf, dt), h)
                  IN  Process(d) /\ ObserveAny(d, dt)
    /\ BusDelivers
    /\ UNCHANGED <<running, t_src, t_smp, sup, nstart, detvars, extvars>>

\* One session of the camera whose detections carry any happened flag.
NextFlags ==
    \/ Start(1)
    \/ AggRunAny(MaxDetFlags)
    \/ SourceEnd
    \/ SupCancelSampler
    \/ SupFlush
    \/ SupCancelAgg

SpecFlags == Init /\ [][NextFlags]_vars

\* ------------------------------------------------------------- observations
IsOpenPub(p) == p.topic = topic_for(TOPIC_OPEN_BASE, CameraId)
IsClosePub(p) == p.topic = topic_for(TOPIC_CLOSE_BASE, CameraId)
Opens == SelectSeq(published, IsOpenPub)
Closes == SelectSeq(published, IsClosePub)
\* what the step published
NewPubs == SubSeq(published', Len(published) + 1, Len(published'))
NewOpens == SelectSeq(NewPubs, IsOpenPub)
NewCloses == SelectSeq(NewPubs, IsClosePub)
\* the step is one iteration of AccidentAggregator.run
DetStep == ndet' = ndet + 1
\* the step is a call of AccidentAggregator.flush
FlushStep == sup \in {"drain", "await_src"} /\ sup' \in {"flushed", "done"}

\* ------------------------------------------------------------------ claims

\* C1: from IDLE with no pending close, a detection publishes an open event
\* exactly when it makes happened_streak reach required_consecutive: it ends a
\* run of at least 3 consecutive happened=true detections; shorter runs publish
\* none, a step publishes at most one, and no detection publishes an open
\* event while an incident is OPEN.
C1_OpenIffStreakReached ==
    [][ DetStep =>
          /\ Len(NewOpens) <= 1
          /\ (IsNone(open) /\ IsNone(pending_close)) =>
                /\ Len(NewOpens) = 1 <=>
                      (Val(det').happened /\ hap_streak + 1 = REQUIRED_HAPPENED_CONSEC)
                /\ Len(NewOpens) = 1 <=> run_len' >= REQUIRED_HAPPENED_CONSEC
          /\ ~IsNone(open) => Len(NewOpens) = 0
      ]_vars

\* C1 witness: a run of four happened=true detections has published one open
\* event and the incident is still OPEN.
C1_Witness ==
    /\ run_len = 4
    /\ Len(Opens) = 1
    /\ ~IsNone(open)

\* C2: the open event carries the frame index and pts of the first detection
\* of the run of happened=true detections that opened the incident.
C2_StartIsFirstFrameOfRun ==
    [][ (DetStep /\ Len(NewOpens) = 1) =>
          /\ NewOpens[1].ev.frame_idx = Val(run_first').frame_idx
          /\ NewOpens[1].ev.pts_in_video = Val(run_first').pts_in_video
          /\ Val(open').start_idx = Val(run_first').frame_idx
          /\ Val(open').start_ts = Val(run_first').pts_in_video
      ]_vars

\* C2 is refuted by three happened=true detections after IDLE: the open event
\* is stamped with the third.

\* C3: a pending close is published by the first later detection whose pts
\* exceeds pending_ts + merge_gap_sec, unchanged and ahead of anything else the
\* detection publishes; a detection with pts <= pending_ts + merge_gap_sec
\* publishes no close; the pending close is created without publishing, its
\* duration is end_ts - start_ts of the incident; and an aggregator never
\* publishes two close events with one incident id, nor one for the incident
\* whose close is still pending.
C3_CloseOnExpiryOnly ==
    [][ /\ (DetStep /\ ~IsNone(pending_close)) =>
              IF Val(det').pts_in_video > Val(pending_close_time) + MERGE_GAP_SEC
              THEN /\ Len(NewCloses) = 1
                   /\ IsClosePub(NewPubs[1])
                   /\ NewPubs[1].ev = Val(pending_close)
                   /\ IsNone(pending_close')
              ELSE /\ Len(NewCloses) = 0
                   /\ ~IsNone(pending_close')
        /\ (DetStep /\ IsNone(pending_close)) => Len(NewCloses) = 0
        /\ (DetStep /\ IsNone(pending_close) /\ ~IsNone(pending_close')) =>
              /\ ~IsNone(open)
              /\ Val(pending_close').incident_id = Val(open).id
              /\ Val(pending_close').duration_sec =
                    Val(det').pts_in_video - Val(open).start_ts
              /\ Val(pending_close_time') = Val(det').pts_in_video
              /\ published' = published
        /\ \A i, j \in 1..Len(Closes') :
              (i < j /\ Closes'[i].by = Closes'[j].by)
                 => Closes'[i].ev.incident_id # Closes'[j].ev.incident_id
        /\ ~IsNone(pending_close') =>
              \A i \in 1..Len(Closes') :
                 Closes'[i].by = nstart'
                    => Closes'[i].ev.incident_id # Val(pending_close').incident_id
      ]_vars

\* C3 witness: a close event has been published by expiry (flush has not run)
\* by a detection later than pending_ts + merge_gap_sec.
C3_Witness ==
    /\ Len(Closes) = 1
    /\ sup = "await_src"
    /\ t_agg = "running"
    /\ Val(det).pts_in_video > Closes[1].ev.pts_in_video + MERGE_GAP_SEC
    /\ Closes[1].ev.duration_sec > 0

\* C3 witness of the boundary: a detection exactly merge_gap_sec after the
\* pending close stamp leaves the close pending.
C3_BoundaryReached ==
    /\ ~IsNone(pending_close)
    /\ Val(det).pts_in_video = Val(pending_close_time) + MERGE_GAP_SEC

\* C4: when the open condition is met within merge_gap_sec of a pending close,
\* the aggregator returns to OPEN with the pending incident's id, publishes
\* nothing, clears the pending close and keeps running.
C4_MergeReopens ==
    [][ ( /\ DetStep
          /\ ~IsNone(pending_close)
          /\ Val(det').pts_in_video <= Val(pending_close_time) + MERGE_GAP_SEC
          /\ Val(det').happened
          /\ hap_streak + 1 >= REQUIRED_HAPPENED_CONSEC )
        => /\ ~IsNone(open')
           /\ Val(open').id = Val(pending_close).incident_id
           /\ IsNone(pending_close')
           /\ published' = published
           /\ t_agg' = "running"
      ]_vars

\* C4 is refuted by a third happened=true detection inside the merge window:
\* _merge_reopen_into_pending reads pc["start_ts"], a key _schedule_close never
\* stores, and the KeyError ends AccidentAggregator.run.

\* C5: flush publishes the pending close as it stands if one is pending, one
\* close with reason flush_open for the incident if one is OPEN, nothing if
\* IDLE, never more than one close event, and leaves neither an open nor a
\* pending incident, so that a second flush would publish nothing.
C5_Flush ==
    [][ FlushStep =>
          /\ NewPubs = NewCloses
          /\ Len(NewCloses) <= 1
          /\ ~IsNone(pending_close) =>
                /\ Len(NewCloses) = 1
                /\ NewCloses[1].ev = Val(pending_close)
          /\ ~IsNone(open) =>
                /\ Len(NewCloses) = 1
                /\ "reason" \in DOMAIN NewCloses[1].ev
                /\ NewCloses[1].ev.reason = "flush_open"
                /\ NewCloses[1].ev.incident_id = Val(open).id
          /\ (IsNone(open) /\ IsNone(pending_close)) => published' = published
          /\ IsNone(open') /\ IsNone(pending_close')
          /\ FlushEvents(open', pending_close') = <<>>
      ]_vars

\* C5 witness: flush has force-closed an incident that was OPEN.
C5_Witness ==
    /\ sup = "flushed"
    /\ Len(Closes) = 1
    /\ "reason" \in DOMAIN Closes[1].ev
    /\ Len(Opens) = 1

\* C5, reached too: flush has published a close that was pending.
C5_PendingFlushed ==
    /\ sup = "flushed"
    /\ Len(Closes) = 1
    /\ "reason" \notin DOMAIN Closes[1].ev
    /\ Val(det).pts_in_video <= Closes[1].ev.pts_in_video + MERGE_GAP_SEC

\* the close events of aggregator b that carry incident id
ClosesOf(b, id) ==
    {i \in 1..Len(published) :
        /\ IsClosePub(published[i])
        /\ published[i].by = b
        /\ published[i].ev.incident_id = id}

\* once the supervisor has finished: every open event is followed by exactly
\* one close event with its incident id, and nothing is OPEN or pending
AllClosed ==
    /\ IsNone(open)
    /\ IsNone(pending_close)
    /\ \A i \in 1..Len(published) :
          IsOpenPub(published[i]) =>
             /\ Cardinality(ClosesOf(published[i].by, published[i].ev.incident_id)) = 1
             /\ \A j \in ClosesOf(published[i].by, published[i].ev.incident_id) : i < j

\* C6: when the source reaches its end, the supervisor finishes, and then every
\* open event published for the camera has exactly one close event with its
\* incident id, published after it, and no incident is OPEN or pending.
C6_EveryOpenClosed ==
    /\ [](sup = "done" => AllClosed)
    /\ (sup = "await_src") ~> (sup = "done")

\* C6 witness: the supervisor has finished after two incidents, the first
\* closed by expiry.
C6_Witness ==
    /\ sup = "done"
    /\ Len(Opens) = 2
    /\ Len(Closes) = 2

\* C7: at most one incident is active: the open incident and the pending close
\* are never both set, and the open events of the aggregator outnumber its
\* close events by one while an incident is OPEN or pending and by none
\* otherwise (so no open event is published while an incident is OPEN).
C7_AtMostOneActive ==
    /\ ~(~IsNone(open) /\ ~IsNone(pending_close))
    /\ Len(Opens) = Len(Closes) + (IF IsNone(open) /\ IsNone(pending_close) THEN 0 ELSE 1)

\* C7 witness: a second incident is OPEN after the first was closed.
C7_Witness ==
    /\ ~IsNone(open)
    /\ Len(Opens) = 2
    /\ Len(Closes) = 1

\* The detections of C8: three with confidence 0.9 at pts 1.0, 1.033, 1.066,
\* then detections with confidence 0.1 one frame step apart.
C8Script(n) ==
    [i \in 1..n |-> Detection(IF i <= 3 THEN 9000 ELSE 1000, i - 1, 1000 + DtFrame * (i - 1))]
\* pts of the k-th detection with confidence 0.1
C8NegPts(k) == 1000 + DtFrame * (2 + k)
\* flush has not run yet
NotFlushed == sup \in {"await_src", "drain"}
\* the aggregator has been fed three positives and k negatives of C8, no more
C8After(k) == NotFlushed /\ hist = C8Script(3 + k)
\* ... and then one detection later than the pending stamp + merge_gap_sec
C8Beyond(k) ==
    /\ NotFlushed
    /\ Len(hist) = 4 + k
    /\ SubSeq(hist, 1, 3 + k) = C8Script(3 + k)
    /\ hist[4 + k].pts_in_video > C8NegPts(k) + MERGE_GAP_SEC

StartPtsKeys == {"start_ts", "start_pts"}
EndPtsKeys == {"end_ts", "end_pts"}
AnyPtsKeys == {"pts_in_video"}
StartIdxKeys == {"start_idx", "start_frame_idx"}
EndIdxKeys == {"end_idx", "end_frame_idx"}
AnyIdxKeys == {"frame_idx"}
PosFramesKeys == {"pos_frames", "positive_frame_count"}
Carries(ev, keys) == (DOMAIN ev) \cap keys # {}

\* C9: every close event carries camera_id, incident_id, start and end pts,
\* start and end frame indices, peak confidence, duration and the positive
\* frame count; every open event carries camera_id, incident_id, start pts,
\* start frame index and confidence.
C9_Payload ==
    \A i \in 1..Len(published) :
       LET ev == published[i].ev
       IN  /\ IsClosePub(published[i]) =>
                /\ {"camera_id", "incident_id", "peak_confidence", "duration_sec"} \subseteq DOMAIN ev
                /\ Carries(ev, StartPtsKeys)
                /\ Carries(ev, EndPtsKeys \cup AnyPtsKeys)
                /\ Carries(ev, StartIdxKeys)
                /\ Carries(ev, EndIdxKeys \cup AnyIdxKeys)
                /\ Carries(ev, PosFramesKeys)
           /\ IsOpenPub(published[i]) =>
                /\ {"camera_id", "incident_id", "confidence"} \subseteq DOMAIN ev
                /\ Carries(ev, StartPtsKeys \cup AnyPtsKeys)
                /\ Carries(ev, StartIdxKeys \cup AnyIdxKeys)

\* C10: no two open events of the camera under one session id carry the same
\* incident id, also across a stop and a new start of the camera's session.
C10_UniqueIncidentIds ==
    \A i, j \in 1..Len(published) :
       ( /\ i < j
         /\ IsOpenPub(published[i])
         /\ IsOpenPub(published[j])
         /\ published[i].ev.camera_id = published[j].ev.camera_id
         /\ published[i].ev.session_id = published[j].ev.session_id )
       => published[i].ev.incident_id # published[j].ev.incident_id

\* ------------------------------------------------------------ claims, the bus
\* the step is one bus.publish call
PubStep == Len(published') = Len(published) + 1
\* the item and the topic of that call
NewItem == Len(published')
NewTopic == published'[Len(published')].topic
\* the subscribers the call finds under its topic
NewTargets == Snapshot(topics, NewTopic)
\* how often x occurs in seq
Count(seq, x) == Cardinality({k \in DOMAIN seq : seq[k] = x})
\* strictly increasing: in publish order, nothing twice
Increasing(seq) == \A j, k \in DOMAIN seq : j < k => seq[j] < seq[k]
\* the publishes on the topic of subscriber i made after it registered
OfferedTo(i) ==
    {n \in (subs[i].since + 1)..Len(published) : published[n].topic = subs[i].topic}

\* C11: publish is possible whatever the queues hold (it waits for no consumer
\* and cannot fail); every queue has capacity at least 1 and never holds more
\* than its capacity; after a publish the new item is the last of the queue
\* of every subscriber of the topic; a fifo subscriber whose queue was full has
\* lost exactly its oldest item, one whose queue was not full has lost none.
C11_PublishNeverBlocks ==
    /\ [](\A i \in DOMAIN subs : subs[i].cap >= 1 /\ Len(subs[i].queue) <= subs[i].cap)
    /\ [](Len(published) < MaxPub =>
             \A t \in SingleTopics : ENABLED BusPublish(t, "x", MaxPub))
    /\ [][ PubStep =>
             \A i \in NewTargets :
                /\ subs'[i].queue # <<>>
                /\ subs'[i].queue[Len(subs'[i].queue)] = NewItem
                /\ subs[i].mode = "fifo" =>
                      IF Len(subs[i].queue) = subs[i].cap
                      THEN /\ subs'[i].queue = Append(Tail(subs[i].queue), NewItem)
                           /\ subs'[i].lost = Append(subs[i].lost, Head(subs[i].queue))
                      ELSE /\ subs'[i].queue = Append(subs[i].queue, NewItem)
                           /\ subs'[i].lost = subs[i].lost
       ]_vars

\* C11 witness: a fifo subscriber of capacity 2 holds a full queue after its
\* oldest item was evicted by a publish.
C11_Witness ==
    \E i \in DOMAIN subs :
       /\ subs[i].mode = "fifo"
       /\ subs[i].cap = 2
       /\ Len(subs[i].queue) = 2
       /\ subs[i].lost # <<>>
       /\ subs[i].queue[2] = Len(published)

\* C12: a latest subscriber has capacity 1 whatever maxsize was asked for, and
\* after every publish to its topic its queue holds exactly the item just
\* published, the unread one before it being dropped.
C12_LatestHoldsNewest ==
    /\ [](\A i \in DOMAIN subs : subs[i].mode = "latest" => subs[i].cap = 1)
    /\ [][ PubStep =>
             \A i \in NewTargets :
                subs[i].mode = "latest" =>
                   /\ subs'[i].queue = <<NewItem>>
                   /\ subs'[i].lost = subs[i].lost \o subs[i].queue
       ]_vars

\* C12 witness: a latest subscriber asked for capacity 2 holds only the last of
\* several items published without a read in between.
C12_Witness ==
    \E i \in DOMAIN subs :
       /\ subs[i].mode = "latest"
       /\ subs[i].asked = 2
       /\ subs[i].got = <<>>
       /\ Len(subs[i].lost) = 2
       /\ subs[i].queue = <<Len(published)>>

\* C13: for a fifo subscriber, the items read followed by the items still
\* queued are in publish order with none twice, all published on its topic
\* after it registered; while it is registered they are all of those publishes
\* but the evicted ones; and an item is evicted only as the oldest of a full
\* queue.
C13_FifoOrder ==
    /\ [](\A i \in Singles :
            subs[i].mode = "fifo" =>
               /\ Increasing(subs[i].got \o subs[i].queue)
               /\ Range(subs[i].got \o subs[i].queue) \subseteq OfferedTo(i)
               /\ Range(subs[i].got \o subs[i].queue) \cap Range(subs[i].lost) = {}
               /\ Registered(i) =>
                     Range(subs[i].got \o subs[i].queue) \cup Range(subs[i].lost) = OfferedTo(i))
    /\ [][ \A i \in Singles :
             (subs[i].mode = "fifo" /\ subs'[i].lost # subs[i].lost) =>
                /\ Len(subs[i].queue) = subs[i].cap
                /\ subs'[i].lost = Append(subs[i].lost, Head(subs[i].queue))
       ]_vars

\* C13 witness: a fifo consumer has read an item, another was evicted before
\* it, and a later one is queued.
C13_Witness ==
    \E i \in Singles :
       /\ subs[i].mode = "fifo"
       /\ subs[i].lost # <<>>
       /\ subs[i].got # <<>>
       /\ subs[i].queue # <<>>
       /\ subs[i].lost[1] < subs[i].got[1]

\* C14: a publish to a topic without subscribers leaves the topic map, every
\* subscriber and the merged queue as they were; any publish leaves the topic
\* map and the subscribers of the other topics as they were and logs the item
\* as given.
C14_NoSubscriberNoOp ==
    [][ PubStep =>
          /\ topics' = topics
          /\ \A i \in (DOMAIN subs) \ NewTargets : subs'[i] = subs[i]
          /\ NewTargets = {} => (subs' = subs /\ merged' = merged)
          /\ published'[NewItem].ev \in ItemSet
      ]_vars

\* C14 witness: an item was published to a topic that never had a subscriber
\* while a subscriber of another topic holds an item.
C14_Witness ==
    \E n \in DOMAIN published :
       /\ published[n].topic \notin DOMAIN topics
       /\ \A i \in DOMAIN subs : subs[i].topic # published[n].topic
       /\ \E i \in DOMAIN subs : Registered(i) /\ subs[i].queue # <<>>

\* everything subscriber i of the subscribe_many handle was given
ManyTrail(i) ==
    subs[i].lost \o (IF IsNone(subs[i].held) THEN <<>> ELSE <<Val(subs[i].held)>>) \o subs[i].queue

\* C15: a publish puts its item once into the queue of each subscriber of its
\* topic and into no other queue; an item is never twice in what a subscriber
\* holds, nor twice in what the merged queue holds or has handed out; items are
\* lost only as the oldest of a full subscriber queue; and publish stays
\* possible when the merged queue, a forward task and a subscriber queue are
\* all full.
C15_AtMostOnce ==
    /\ [](\A i \in DOMAIN subs :
            /\ \A n \in DOMAIN published : Count(ManyTrail(i), n) <= 1
            /\ \A n \in Range(ManyTrail(i)) : published[n].topic = subs[i].topic)
    /\ [](~IsNone(merged) =>
            \A n \in DOMAIN published :
               Count(Val(merged).got \o Val(merged).queue, n) <= 1)
    /\ [](Len(published) < MaxPubMany =>
            \A t \in Range(PipeTopics(<<CameraId>>)) : ENABLED BusPublish(t, "x", MaxPubMany))
    /\ [][ PubStep =>
             \A i \in DOMAIN subs :
                /\ Count(subs'[i].queue, NewItem) = (IF subs[i].topic = NewTopic THEN 1 ELSE 0)
                /\ subs'[i].lost # subs[i].lost =>
                      /\ Len(subs[i].queue) = subs[i].cap
                      /\ subs'[i].lost = Append(subs[i].lost, Head(subs[i].queue))
       ]_vars

\* C15 witness: the merged queue is full, a forward task holds an item, its
\* subscriber queue is full and has lost its oldest item to a later publish.
C15_Witness ==
    /\ ~IsNone(merged)
    /\ QueueFull(Val(merged).queue, Val(merged).maxsize)
    /\ \E i \in DOMAIN subs :
          /\ ~IsNone(subs[i].held)
          /\ Len(subs[i].queue) = subs[i].cap
          /\ subs[i].lost # <<>>

\* C16: a subscriber is never given an item published before it registered:
\* its queue is empty when subscribe returns, and everything it reads, holds
\* or loses was published on its topic after its registration.
C16_NoReplay ==
    /\ [](\A i \in DOMAIN subs :
            \A n \in Range(subs[i].got \o subs[i].queue \o subs[i].lost) :
               /\ n > subs[i].since
               /\ published[n].topic = subs[i].topic)
    /\ [][ Len(subs') = Len(subs) + 1 =>
             /\ subs'[Len(subs')].queue = <<>>
             /\ subs'[Len(subs')].since = Len(published)
             /\ \A i \in DOMAIN subs : subs'[i] = subs[i]
       ]_vars

\* C16 witness: a consumer subscribed the camera's open and close topics after
\* an incident was opened; it has read the close event of that incident and
\* was given no open event for it.
C16_Witness ==
    \E i, j \in DOMAIN subs, m, n \in DOMAIN published :
       /\ subs[i].topic = topic_for(TOPIC_CLOSE_BASE, CameraId)
       /\ subs[j].topic = topic_for(TOPIC_OPEN_BASE, CameraId)
       /\ IsOpenPub(published[m])
       /\ m <= subs[i].since /\ m <= subs[j].since
       /\ IsClosePub(published[n])
       /\ published[n].ev.incident_id = published[m].ev.incident_id
       /\ n \in Range(subs[i].got)
       /\ subs[j].got \o subs[j].queue \o subs[j].lost = <<>>

\* C17: the stages of camera c are connected: an item published on the topic
\* the sampler publishes c's frames on is, after the publish, the last item in
\* the queue of every subscriber registered under the topic c's forwarding
\* task subscribes; and the topic the scheduler publishes c's detections on is
\* the topic c's aggregator subscribes.
C17_StagesConnected ==
    /\ DetectorTopic(CameraId) = AggregatorTopic(CameraId)
    /\ SourceTopic(CameraId) = SamplerInTopic(CameraId)
    /\ [][ (PubStep /\ NewTopic = SamplerTopic(CameraId)) =>
             \A i \in Snapshot(topics, CollectorTopic(CameraId)) :
                /\ subs'[i].queue # <<>>
                /\ subs'[i].queue[Len(subs'[i].queue)] = NewItem
       ]_vars

\* C17 is refuted by a subscriber under frames:cam-1 and a publish on frames:
\* run_sampler_equal_time publishes on the bare topic "frames", _collector
\* subscribes topic_for("frames", cam), and the frame reaches no queue.

\* ------------------------------------------------------ claims, the scheduler

\* the cameras of the batch handed to the scoring call
BatchCams == {batch_items[k].cam : k \in DOMAIN batch_items}

\* C18 (refuted): no camera starves.  In a run where batches keep being
\* assembled and the buffer of camera c holds a frame from some point on (so
\* at every later assembly), a batch with a frame of c is assembled again and
\* again.  The code rebuilds cams_round from camera_ids for every batch, so
\* with batch_size < N the round always starts at the first camera: while the
\* buffers of the first batch_size cameras are refilled between two batches,
\* the batch is full before the round reaches the cameras behind them.
C18_NoStarvation ==
    \A c \in {"cam-1", "cam-2"} :
        ( /\ <>[](c \in DOMAIN bufs /\ bufs[c] # <<>>)
          /\ []<>(sched = "infer") )
        => []<>(sched = "infer" /\ c \in BatchCams)

\* C19 (refuted): a failure of the scoring call is isolated.  When the scoring
\* call of a batch ends, every item of the batch has its detection published
\* for its camera and frame, and the scheduler and its collectors go on.  The
\* call is awaited with no handler around it: an exception leaves the loop
\* through the finally block, which starts cancelling the collectors, and no
\* item of the batch is published.
C19_FailureIsolated ==
    [][ (sched = "infer" /\ sched' # "infer") =>
          /\ sched' = "assemble"
          /\ \A c \in DOMAIN collectors' : collectors'[c] = "running"
          /\ Len(dets_out') = Len(batch_items)
          /\ \A k \in DOMAIN batch_items :
                /\ dets_out'[k].topic = DetectorTopic(batch_items[k].cam)
                /\ dets_out'[k].det.camera_id = batch_items[k].cam
                /\ dets_out'[k].det.frame_idx = batch_items[k].frame.frame_idx ]_vars

\* ----------------------------------------------------- claims, the supervisor

\* the steps of the supervisor of one session, in the order of _start
SupOrder ==
    {<<"idle", "await_src">>, <<"done", "await_src">>, <<"await_src", "drain">>,
     <<"drain", "flushed">>, <<"flushed", "done">>}

\* C20: at the end of the stream of the camera's file the supervisor goes
\* through its steps in order: it leaves "await t_src" only when the source
\* task is done, and by cancelling the sampler; it flushes only after that;
\* the flush step runs with the aggregator task not cancelled, leaves no incident
\* open or pending and publishes the close of each incident that was; and the
\* aggregator task is cancelled only by the step that follows the flush.
C20_FlushBeforeCancel ==
    /\ [](sup \in {"drain", "flushed"} =>
            t_src = "done" /\ t_smp = "cancelled" /\ t_agg # "cancelled")
    /\ [](t_agg = "cancelled" =>
            sup = "done" /\ IsNone(open) /\ IsNone(pending_close))
    /\ [][ /\ sup' # sup => <<sup, sup'>> \in SupOrder
           /\ (t_smp' = "cancelled" /\ t_smp # "cancelled") =>
                 t_src = "done" /\ sup = "await_src" /\ sup' = "drain"
           /\ (sup = "drain" /\ sup' # "drain") =>
                 /\ IsNone(open') /\ IsNone(pending_close')
                 /\ Len(NewCloses) = (IF IsNone(open) THEN 0 ELSE 1) +
                                     (IF IsNone(pending_close) THEN 0 ELSE 1)
                 /\ ~IsNone(open) =>
                       NewCloses[Len(NewCloses)].ev.incident_id = Val(open).id
           /\ (t_agg' = "cancelled" /\ t_agg # "cancelled") =>
                 sup = "flushed" /\ sup' = "done" ]_vars

\* a session whose file ended with an incident open: flush closed it, and the
\* aggregator task was cancelled after that
C20_Witness ==
    /\ sup = "done"
    /\ t_agg = "cancelled"
    /\ t_src = "done"
    /\ published # <<>>
    /\ IsClosePub(published[Len(published)])
    /\ published[Len(published)].ev.reason = "flush_open"

\* ----------------------------------------------------- claims, the close path

\* the detection the step hands to _process, and what _process computes from
\* it before its decisions: the gap test, the EMA and the negative streak
StepDet == Val(det')
StepGap ==
    ~IsNone(last_seen_pts) /\ StepDet.pts_in_video - Val(last_seen_pts) > OCCLUSION_GRACE_SEC
StepEma == (ALPHA_NUM * StepDet.confidence + (ALPHA_DEN - ALPHA_NUM) * ema) \div ALPHA_DEN
StepNeg == IF StepEma <= EXIT_THR /\ ~StepGap THEN neg_streak + 1 ELSE 0

\* C26: a detection that finds an incident OPEN moves it to pending close
\* exactly when, after the detection, ema <= exit_threshold and neg_streak >=
\* min_end_neg_frames.  The step then leaves OPEN, stores the close of that
\* incident stamped with the pts of the detection and publishes nothing; while
\* an incident is OPEN no close is pending.  A close event is published only
\* by a later detection beyond the merge window, or by flush.
C26_PendingNotPublished ==
    /\ [](~IsNone(open) => IsNone(pending_close) /\ IsNone(pending_close_time))
    /\ [][ /\ (DetStep /\ ~IsNone(open)) =>
                 IF StepEma <= EXIT_THR /\ StepNeg >= MIN_END_NEG_FRAMES
                 THEN /\ IsNone(open')
                      /\ ~IsNone(pending_close')
                      /\ Val(pending_close').type = "accident_close"
                      /\ Val(pending_close').incident_id = Val(open).id
                      /\ Val(pending_close').pts_in_video = StepDet.pts_in_video
                      /\ pending_close_time' = Some(StepDet.pts_in_video)
                      /\ published' = published
                 ELSE /\ ~IsNone(open')
                      /\ IsNone(pending_close')
           /\ Len(NewCloses) > 0 =>
                 \/ FlushStep
                 \/ /\ DetStep
                    /\ ~IsNone(pending_close)
                    /\ NewCloses[1].ev = Val(pending_close)
                    /\ StepDet.pts_in_video - Val(pending_close_time) > MERGE_GAP_SEC ]_vars

\* an incident has just gone from OPEN to pending close: nothing is published
\* for it yet
C26_Witness ==
    /\ ~IsNone(pending_close)
    /\ IsNone(open)
    /\ Len(Opens) = 1
    /\ Len(Closes) = 0
    /\ Val(pending_close_time) = Val(det).pts_in_video
    /\ neg_streak = 0

AssembleStep == sched = "assemble" /\ sched' # "assemble"
\* every buffer of the scheduler is empty
AllEmpty(b) == \A c \in DOMAIN b : b[c] = <<>>
\* the frames of c in the batch, in batch order
BatchFrames(items, c) ==
    LET of_c == SelectSeq(items, LAMBDA it : it.cam = c)
    IN  [k \in DOMAIN of_c |-> of_c[k].frame]

\* C29: at the top of its loop the scheduler can always assemble (the inner
\* loop ends); the batch of a scoring call holds between 1 and batch_size
\* frames; it holds fewer than batch_size only if assembly left every buffer
\* empty; a pass that finds every buffer empty sleeps and does not call the
\* scorer; and assembly takes the frames of a camera from the front of its
\* buffer, in order.
C29_BatchSize ==
    /\ [](sched = "assemble" => ENABLED AssembleBatch)
    /\ [](sched = "infer" => Len(batch_items) >= 1 /\ Len(batch_items) <= batch_size)
    /\ [](sched = "sleep" => batch_items = <<>>)
    /\ [][ AssembleStep =>
             /\ sched' \in {"infer", "sleep"}
             /\ (sched' = "sleep") <=> AllEmpty(bufs)
             /\ Len(batch_items') < batch_size => AllEmpty(bufs')
             /\ \A c \in DOMAIN bufs : bufs[c] = BatchFrames(batch_items', c) \o bufs'[c] ]_vars

\* a scoring call with a batch of one frame although batch_size is larger: the
\* buffers held no more
C29_Witness ==
    /\ sched = "infer"
    /\ batch_size = 2
    /\ Len(camera_ids) = 2
    /\ Len(batch_items) = 1
    /\ AllEmpty(bufs)

\* C30: a buffer of the scheduler never holds more than its capacity; a frame
\* that arrives is appended, and when the buffer was full its oldest frame is
\* dropped; the frames that stay keep their order.
C30_BufferBounded ==
    /\ [](\A c \in DOMAIN bufs : Len(bufs[c]) <= BufMaxlen)
    /\ [](\A c \in DOMAIN collectors : \A f \in FrameSet(c) :
            collectors[c] = "running" =>
               ENABLED (/\ Collector(c, f)
                        /\ bufs'[c] = (IF Len(bufs[c]) = BufMaxlen THEN Tail(bufs[c])
                                       ELSE bufs[c]) \o <<f>>))
    /\ [][ sched' = sched =>
             \A c \in DOMAIN bufs :
                bufs'[c] # bufs[c] =>
                   \E f \in FrameSet(c) :
                      bufs'[c] = (IF Len(bufs[c]) = BufMaxlen THEN Tail(bufs[c]) ELSE bufs[c])
                                 \o <<f>> ]_vars

\* a full buffer whose oldest frame has just been replaced: the newer frame
\* moved to the front and the arrival is last
C30_Witness ==
    /\ sched = "infer"
    /\ \E c \in DOMAIN bufs :
          /\ Len(bufs[c]) = BufMaxlen
          /\ bufs[c][1].frame_idx = 1
          /\ bufs[c][BufMaxlen].frame_idx = 0
          /\ \E k \in DOMAIN batch_items : batch_items[k].cam = c

\* ------------------------------------------------------- claims, the sampler

\* the frame the step hands to the sampler, what it published for it, and the
\* grid point the frame is compared with first
NewRaw == raw'[Len(raw')]
NewEmitted == SubSeq(emitted', Len(emitted) + 1, Len(emitted'))
GridStart == IF IsNone(next_t) THEN NewRaw.pts_in_video ELSE Val(next_t)
\* the grid points g = start + k * step with g <= pts + epsilon: how many
GridPoints(start, step, pts) ==
    Cardinality({k \in 0..((pts + JITTER_EPSILON) \div step) :
                    start + k * step <= pts + JITTER_EPSILON})
\* the pts of a sequence of frames
PtsOf(fs) == [k \in DOMAIN fs |-> fs[k].pts_in_video]

\* C28: next_t starts at the pts of the first frame of the camera; a frame of
\* the camera is published once for every grid point next_t, next_t + step, ...
\* that is <= pts + epsilon, and next_t advances by one step per publish, so
\* that next_t > pts + epsilon afterwards; a frame of another camera changes
\* nothing.  At target_fps = 10 the raw pts 0.0, 0.05, 0.09, 0.20 give the
\* emissions 0.0, 0.20, 0.20.
C28_SamplerGrid ==
    /\ [][ Len(raw') = Len(raw) + 1 =>
             IF NewRaw.camera_id = CameraId
             THEN LET n == GridPoints(GridStart, StepOf(target_fps), NewRaw.pts_in_video)
                  IN  /\ NewEmitted = Repeat(NewRaw, n)
                      /\ next_t' = Some(GridStart + n * StepOf(target_fps))
                      /\ Val(next_t') > NewRaw.pts_in_video + JITTER_EPSILON
                      /\ Val(next_t') - StepOf(target_fps) <= NewRaw.pts_in_video + JITTER_EPSILON
                      /\ OwnRaw = <<>> => (n = 1 /\ emitted' = <<NewRaw>>)
             ELSE emitted' = emitted /\ next_t' = next_t ]_vars
    /\ []((target_fps = 10 /\ PtsOf(OwnRaw) = <<0, 500, 900, 2000>>)
             => PtsOf(emitted) = <<0, 2000, 2000>>)

\* the example of the claim has been run
C28_Witness ==
    /\ target_fps = 10
    /\ PtsOf(OwnRaw) = <<0, 500, 900, 2000>>
    /\ PtsOf(emitted) = <<0, 2000, 2000>>
    /\ next_t = Some(3000)

\* ------------------------------------------------------------ claims, stop

\* the step is the cancellation of the tasks by SingleFileSession.stop
StopStep == running /\ ~running' /\ sup' = sup
\* the step is the supervisor's handler of the CancelledError of "await t_src"
CancelledStep == sup = "await_src" /\ t_src = "cancelled" /\ sup' # sup
\* the incidents flush has to close
ToClose == (IF IsNone(open) THEN 0 ELSE 1) + (IF IsNone(pending_close) THEN 0 ELSE 1)

\* C21 as stated (refuted): once stop has cancelled the source task, no close
\* event is published.  The cancellation of t_src ends "await t_src" in the
\* supervisor with CancelledError, and the handler of that exception awaits
\* aggregator.flush().
C21_StopDoesNotFlush ==
    [][ t_src = "cancelled" => Len(NewCloses) = 0 ]_vars

\* C21, amended: stop itself publishes nothing and leaves the aggregator as it
\* is; the supervisor's handler of the cancellation then flushes: it publishes
\* one close for the pending and one for the OPEN incident (reason
\* flush_open), leaves nothing open or pending and ends the session.
C21_StopFlushes ==
    [][ /\ StopStep =>
              /\ published' = published
              /\ open' = open /\ pending_close' = pending_close
        /\ CancelledStep =>
              /\ sup' = "done" /\ ~running'
              /\ Len(NewPubs) = ToClose
              /\ Len(NewCloses) = ToClose
              /\ IsNone(open') /\ IsNone(pending_close')
              /\ ~IsNone(pending_close) => NewCloses[1].ev = Val(pending_close)
              /\ ~IsNone(open) =>
                    /\ NewCloses[ToClose].ev.incident_id = Val(open).id
                    /\ NewCloses[ToClose].ev.reason = "flush_open" ]_vars

\* a session stopped while its incident was OPEN: the close of the incident
\* was published after the stop
C21_Witness ==
    /\ sup = "done"
    /\ t_src = "cancelled"
    /\ t_agg = "cancelled"
    /\ Len(Opens) = 1
    /\ Len(Closes) = 1
    /\ Closes[1].ev.incident_id = Opens[1].ev.incident_id
    /\ Closes[1].ev.reason = "flush_open"

\* ------------------------------------------------- claims, failing subtasks

\* a task of the session has ended with an exception
SubtaskFailed == "failed" \in {t_src, t_smp, t_agg}
\* a task of the session is still running
SubtaskRunning == "running" \in {t_src, t_smp, t_agg}

\* C25 (refuted): when a subtask has failed and the supervisor has ended, the
\* session is marked not running and none of its tasks is running.  The
\* supervisor sees only the exception of the source task, and its handler
\* prints it: the sampler and the aggregator are not cancelled, and the
\* aggregator goes on processing detections.
C25_FailureEndsSession ==
    [](SubtaskFailed /\ sup = "done" => ~running /\ ~SubtaskRunning)

\* ------------------------------------------------------- claims, the manager

\* no request is under way and the loop has run every coroutine handed to it
Quiet == (\A t \in Threads : req[t].pc = "idle") /\ loopq = <<>>
\* the sessions of camera c whose tasks are running
RunningOf(c) == {i \in DOMAIN sess : sess[i].cam = c /\ sess[i].tasks = "running"}

\* C22 (refuted): once the loop has run everything handed to it, no session
\* that stop was requested for has its tasks running.  stop returns at once
\* when _running is False, and _running becomes True only when the loop runs
\* _start: a stop that comes before that cancels nothing, and stop_all forgets
\* the session, so the tasks _start creates afterwards are never cancelled.
C22_StoppedMeansCancelled ==
    Quiet => \A i \in DOMAIN sess : sess[i].stop_req => sess[i].tasks # "running"

\* C23 (refuted): at most one set of source, sampler and aggregator tasks
\* runs for a camera at any time.  start_all tests "cid not in rt.SESSIONS"
\* and stores the session only after it has created and started it: two
\* requests that both pass the test each create and start a session.
C23_OneTaskSetPerCamera ==
    \A c \in Cams : Cardinality(RunningOf(c)) <= 1

\* C24 (refuted): when nothing is under way and the scheduler runs, its
\* cameras are the cameras that have a session.  start_all starts a scheduler
\* only when there is none, with the list of the cameras of that moment; the
\* list of a running scheduler is never updated.
C24_SchedulerServesActive ==
    (Quiet /\ sched # "none") => Range(camera_ids) = DOMAIN SESSIONS

\* --------------------------------------------------- detections of a batch
\* the step in which a scoring call returns and its results are published
ScoredStep == sched = "infer" /\ sched' = "assemble"

\* C31: when the scoring call of a batch returns, every item of the batch
\* yields exactly one detection, paired with its result by position: it is
\* published on the detection topic of the frame's camera, carries the
\* frame's camera_id, frame_idx and pts_in_video, has confidence 0 when the
\* result holds no box and the largest box confidence otherwise, and has
\* happened = TRUE exactly when its confidence reaches the decision threshold.
C31_OneDetectionPerItem ==
    [][ ScoredStep =>
          /\ Len(dets_out') = Len(batch_items)
          /\ \A k \in DOMAIN batch_items :
                LET f == batch_items[k].frame
                    p == dets_out'[k]
                IN  /\ p.topic = topic_for("accident", f.camera_id)
                    /\ p.det.type = "accident"
                    /\ p.det.camera_id = f.camera_id
                    /\ p.det.frame_idx = f.frame_idx
                    /\ p.det.pts_in_video = f.pts_in_video
                    /\ IsNone(p.res) => p.det.confidence = 0
                    /\ ~IsNone(p.res) => p.det.confidence = Val(p.res)
                    /\ p.det.happened <=> p.det.confidence >= DECISION_THRESH ]_vars

\* a batch of two cameras was scored: one item without a box, one above and
\* one below the threshold were seen among the published detections
C31_Witness ==
    /\ Len(dets_out) = 2
    /\ dets_out[1].det.camera_id = "cam-1" /\ dets_out[2].det.camera_id = "cam-2"
    /\ IsNone(dets_out[1].res) /\ ~dets_out[1].det.happened
    /\ dets_out[2].det.happened
    /\ dets_out[2].det.frame_idx = 1

\* ------------------------------------------------------ intake while scoring
\* C32: while a scoring call is in flight every collector of the scheduler
\* is running, and each of them can move a frame of its camera into that
\* camera's buffer in a step that leaves the scoring call in flight.
C32_IntakeDuringScoring ==
    sched = "infer" =>
        \A c \in Range(camera_ids) :
            /\ collectors[c] = "running"
            /\ \A f \in FrameSet(c) :
                  ENABLED ( /\ Collector(c, f)
                            /\ bufs'[c] = DequeAppend(bufs[c], f, BufMaxlen)
                            /\ sched' = "infer"
                            /\ batch_items' = batch_items )

\* with one camera and batch_size 2 assembly leaves the buffer empty: a
\* frame in the buffer during scoring arrived after the batch was handed over
C32_Witness ==
    /\ sched = "infer"
    /\ camera_ids = <<"cam-1">> /\ batch_size = 2
    /\ Len(batch_items) = 2
    /\ Len(bufs["cam-1"]) = 2

\* ---------------------------------------------------- claims, frame sources
\* the frames camera c's source has published, in order
SourceFramesOf(c) ==
    SelectSeq(published, LAMBDA p : p.topic = SourceTopic(c) /\ p.ev.camera_id = c)

\* the publishes that reached the subscription of camera c's sampler: read,
\* queued or evicted
SamplerSaw(c) ==
    IF smp_sub[c] = 0 THEN {}
    ELSE Range(subs[smp_sub[c]].got) \cup Range(subs[smp_sub[c]].queue)
            \cup Range(subs[smp_sub[c]].lost)

\* the frames of a camera are numbered 0, 1, 2, ... in the order published
SourceIdxGapFree ==
    \A c \in {"cam-1", "cam-2"} :
        \A k \in DOMAIN SourceFramesOf(c) : SourceFramesOf(c)[k].ev.frame_idx = k - 1

\* a sampler's subscription is offered every frame its camera's source
\* publishes after the subscription
OwnFramesOffered ==
    \A c \in {"cam-1", "cam-2"} :
        smp_sub[c] # 0 =>
            \A n \in DOMAIN published :
                (n > subs[smp_sub[c]].since /\ published[n].ev.camera_id = c)
                    => n \in SamplerSaw(c)

\* C33: a frame source numbers the frames it publishes 0, 1, 2, ... without
\* a gap, whatever reads fail, every frame it publishes is offered to the
\* subscription of its camera's sampler, and that subscription receives, and
\* loses by eviction, frames of its own camera only.
C33_SourceFrames ==
    /\ SourceIdxGapFree
    /\ OwnFramesOffered
    /\ \A c \in {"cam-1", "cam-2"} :
          \A n \in SamplerSaw(c) : published[n].ev.camera_id = c

\* ------------------------------------------------ claims, order of detections
\* the detection handed to camera c's aggregator last, then the detections
\* waiting in its subscription
AggStream(c) == IF IsNone(agg_sub[c]) THEN <<>> ELSE Val(agg_sub[c]).got \o Val(agg_sub[c]).queue

NonDecreasing(ds) ==
    \A j, k \in DOMAIN ds :
        j < k => /\ ds[j].frame_idx <= ds[k].frame_idx
                 /\ ds[j].pts_in_video <= ds[k].pts_in_video

BusOps == {"subscribe", "unsubscribe", "subscribe_many", "unsubscribe_many",
           "publish", "close_topic"}

\* the step changes the topic map
MapStep == topics' # topics

\* C35: the bus lock is free whenever every task is suspended, so no
\* operation of the bus finds it taken: each of subscribe, unsubscribe,
\* subscribe_many, close_topic and publish takes it, reads or changes the
\* topic map and releases it without suspending in between, and the topic
\* map changes in no other step.
C35_LockNeverHeldAcrossSuspension ==
    /\ [](~lock)
    /\ [][ /\ ~lock'
           /\ MapStep => (\/ Len(subs') > Len(subs)
                          \/ exited' # exited
                          \/ \E t \in ScopeTopics : topics' = DictPop(topics, t)) ]_vars

\* every operation of the bus has run: a subscribe scope and the
\* subscribe_many scope have exited, items were published, and a subscriber
\* is registered again on a topic
C35_Witness ==
    /\ ~lock
    /\ \E i \in exited : subs[i].many
    /\ \E i \in exited : ~subs[i].many
    /\ Len(published) = MaxPubScope
    /\ \E j \in Singles : Registered(j)

\* the step is a publish call
PublishCall == Len(published') = Len(published) + 1

\* C40: once the scope of a subscribe or subscribe_many handle has exited,
\* no subscriber of the handle is in the topic map and no later publish puts
\* an item into its queue; and no topic of the map ever has an empty
\* subscriber list, also when a topic is closed and subscribed again.
C40_ExitedScopesGone ==
    /\ [](\A i \in exited : ~Registered(i))
    /\ [](\A t \in DOMAIN topics : topics[t] # <<>>)
    /\ [][ PublishCall => \A i \in exited : subs'[i] = subs[i] ]_vars

\* the scope of a subscribe handle has exited; a topic of the subscribe_many
\* handle was closed while its scope is open and was subscribed again by a
\* new handle, which then received an item
C40_Witness ==
    \E i, j \in Singles :
        /\ i \in exited /\ j \notin exited
        /\ \E k \in Range(ManySubs) :
              /\ k \notin exited /\ ~Registered(k)
              /\ k < j
              /\ subs[k].topic = subs[j].topic
              /\ subs[k].queue = <<>> /\ IsNone(subs[k].held)
        /\ DictGet(topics, subs[j].topic, <<>>) = <<j>>
        /\ subs[j].queue # <<>>

\* ------------------------------------------------ claims, background loop
\* the loops whose thread is alive
LiveLoops == {l \in DOMAIN bg_loops : bg_loops[l].st \in {"starting", "running"}}

\* thread t returns from ensure_bg_loop in this step
EnsureReturns(t) == bgthr[t].pc = "ensure" /\ bgthr'[t].pc = "idle"

\* C36: whatever calls of ensure_bg_loop and stop_bg_loop the request
\* threads make and however they interleave, at most one background loop
\* thread is alive, and the loop ensure_bg_loop returns has a live thread
\* that runs it (it is running or about to run), so that work handed to it
\* is run.
C36_EnsuredLoopRuns ==
    /\ [](Cardinality(LiveLoops) <= 1)
    /\ [][ \A t \in {1, 2} :
              EnsureReturns(t) => Val(bgthr'[t].ret) \in {l \in DOMAIN bg_loops' :
                                     bg_loops'[l].st \in {"starting", "running"}} ]_vars

\* ------------------------------------------ claims, the streak that closes
\* the step moves the open incident to the pending close
ScheduleCloseStep ==
    /\ DetStep
    /\ ~IsNone(open) /\ IsNone(open')
    /\ ~IsNone(pending_close')
    /\ Val(pending_close')["incident_id"] = Val(open).id

\* C37: an incident is moved from open to the pending close only by a
\* detection that is at least min_end_neg_frames detections after the one
\* that opened it, whatever the confidences and the happened flags of the
\* detections are.
C37_CloseCountsFromOpen ==
    [][ ScheduleCloseStep =>
            Val(det').frame_idx - Val(open).start_idx >= MIN_END_NEG_FRAMES ]_vars

\* ------------------------------------------ claims, open and close in turn
\* the open and close events aggregator b published, in order
EventsBy(b) ==
    SelectSeq(published, LAMBDA p : p.by = b /\ (IsOpenPub(p) \/ IsClosePub(p)))

\* C38: the open and close events one aggregator publishes alternate: every
\* close event carries the incident_id of an open event the aggregator
\* published before it, and the close event of an incident comes before the
\* open event of the next incident, also when one detection both flushes the
\* expired pending close and opens a new incident.
C38_OpenCloseAlternate ==
    \A b \in 1..nstart :
        LET s == EventsBy(b)
        IN  /\ \A k \in 1..Len(s) :
                  IF k % 2 = 1
                  THEN IsOpenPub(s[k])
                  ELSE /\ IsClosePub(s[k])
                       /\ s[k].ev.incident_id = s[k - 1].ev.incident_id
            /\ \A k \in 1..Len(s) :
                  IsClosePub(s[k]) =>
                      \E j \in 1..(k - 1) :
                          /\ IsOpenPub(s[j])
                          /\ s[j].ev.incident_id = s[k].ev.incident_id

\* the last detection came after the merge window of the pending close had
\* passed, the detection before it came within the window, and the last
\* detection both published the close event and opened the next incident
C38_Witness ==
    LET n == Len(published)
        m == Len(hist)
    IN  /\ n >= 3 /\ m >= 2
        /\ IsClosePub(published[n - 1]) /\ IsOpenPub(published[n])
        /\ published[n - 1].by = published[n].by
        /\ published[n - 1].ev.incident_id # published[n].ev.incident_id
        /\ hist[m].pts_in_video - published[n - 1].ev.pts_in_video > MERGE_GAP_SEC
        /\ hist[m - 1].pts_in_video - published[n - 1].ev.pts_in_video <= MERGE_GAP_SEC
        /\ published[n].ev.pts_in_video = hist[m].pts_in_video
        /\ ~IsNone(open) /\ Val(open).id = published[n].ev.incident_id
        /\ IsNone(pending_close)

\* ------------------------------------------ flush beside the running task
\* mutant: every await of bus.publish hands the event loop to the other tasks
PublishYields_Always == TRUE

\* await self.bus.publish(...): the caller is suspended only in
\* self._lock.acquire(), that is when another task holds the lock
PublishYields == lock

\* the fields of the aggregator that flush reads and writes, and the log of
\* the publish calls
FlushState ==
    [open |-> open, pending_close |-> pending_close,
     pending_close_time |-> pending_close_time, published |-> published]

\* flush after the await of the pending close: the fields are cleared
AfterPending(st) == [st EXCEPT !.pending_close = None, !.pending_close_time = None]

\* flush, "if self._open is not None": up to the next suspension or the end.
\* at is the position the supervisor is left in.
FlushOpenPart(st, yields) ==
    IF ~IsNone(st.open)
    THEN LET st1 == [st EXCEPT !.published =
                        Publish(st.published, TOPIC_CLOSE_BASE, FlushEvent(Val(st.open)))]
         IN  IF yields
             THEN [at |-> "flush_open", st |-> st1]
             ELSE [at |-> "flushed", st |-> [st1 EXCEPT !.open = None]]
    ELSE [at |-> "flushed", st |-> st]

\* flush, "if self._pending_close is not None": up to the next suspension or
\* the end
FlushPendingPart(st, yields) ==
    IF ~IsNone(st.pending_close)
    THEN LET st1 == [st EXCEPT !.published =
                        Publish(st.published, TOPIC_CLOSE_BASE, Val(st.pending_close))]
         IN  IF yields
             THEN [at |-> "flush_pending", st |-> st1]
             ELSE FlushOpenPart(AfterPending(st1), yields)
    ELSE FlushOpenPart(st, yields)

\* flush from the position at, on the fields as they are when it is resumed
FlushFrom(at, st, yields) ==
    CASE at = "drain" -> FlushPendingPart(st, yields)
      [] at = "flush_pending" -> FlushOpenPart(AfterPending(st), yields)
      [] at = "flush_open" -> [at |-> "flushed", st |-> [st EXCEPT !.open = None]]

\* _start after the drain sleep: await aggregator.flush(), one turn of the
\* supervisor on the event loop
FlushTurn ==
    /\ sup \in {"drain", "flush_pending", "flush_open"}
    /\ LET r == FlushFrom(sup, FlushState, PublishYields)
       IN  /\ sup' = r.at
           /\ open' = r.st.open
           /\ pending_close' = r.st.pending_close
           /\ pending_close_time' = r.st.pending_close_time
           /\ published' = r.st.published
    /\ BusDelivers
    /\ UNCHANGED <<counter, ema, hap_streak, neg_streak, last_seen_pts>>
    /\ UNCHANGED <<running, t_src, t_smp, t_agg, obsvars, nstart, detvars, extvars>>

NextRace ==
    \/ Start(1)
    \/ AggRun(MaxDet)
    \/ SourceEnd
    \/ SupCancelSampler
    \/ FlushTurn
    \/ SupCancelAgg

SpecRace == Init /\ [][NextRace]_vars

\* ------------------------------------------ claims, flush beside the task
\* C39: however the supervisor's flush and the _process calls of the
\* aggregator task that is still running take their turns on the event
\* loop, every incident gets at most one close event, and no detection is
\* processed, hence no incident opened, between the end of flush and the
\* cancellation of the aggregator task or after it.
C39_FlushBesideProcess ==
    /\ [](\A i, j \in 1..Len(published) :
             (/\ IsClosePub(published[i]) /\ IsClosePub(published[j])
              /\ published[i].by = published[j].by
              /\ published[i].ev.incident_id = published[j].ev.incident_id)
             => i = j)
    /\ [][ sup = "flushed" \/ (sup = "done" /\ t_agg = "cancelled")
             => ~DetStep /\ NewOpens = <<>> ]_vars
    /\ [][ sup = "flushed" => sup' = "done" /\ t_agg' # "running" ]_vars

\* the aggregator task published the close of the first incident when it
\* expired and opened a second one; flush closed that one while the task was
\* still running
C39_Witness ==
    /\ sup = "flushed" /\ t_agg = "running"
    /\ Len(Closes) = 2
    /\ "reason" \notin DOMAIN Closes[1].ev
    /\ "reason" \in DOMAIN Closes[2].ev
    /\ Closes[1].ev.incident_id # Closes[2].ev.incident_id
    /\ IsNone(open) /\ IsNone(pending_close)

=============================================================================
